---- MODULE Spec2Model ----
(***************************************************************************)
(* Model of the contingency / scenario orchestration and result            *)
(* aggregation engine of powerfactory_network_analysis:                    *)
(*   src/src/core/contingency_manager.py  (ContingencyManager)             *)
(*   src/src/core/scenario_manager.py     (ScenarioManager)                *)
(*   src/src/core/results_manager.py      (ResultsManager)                 *)
(*   src/src/models/network_element.py    (NetworkElement)                 *)
(*   src/src/analyzers/*.py               (Thermal- and VoltageAnalyzer)   *)
(*   src/src/core/powerfactory_interface.py (PowerFactoryInterface)        *)
(*   src/src/core/network_analyzer.py     (NetworkAnalyzer)                *)
(*   src/src/models/violation.py          (Violation)                      *)
(*   src/scripts/run_glenrothes_analysis.py (the scenario loop)            *)
(* Nine specifications share the module: SpecCont (contingency engine),    *)
(* SpecScen (scenario engine), SpecRes (results aggregator), SpecAna (the  *)
(* analyzers), SpecFun (stateless helpers applied to drawn inputs), SpecPf *)
(* (the solver interface), SpecNet (the analyzer's contingency loop),      *)
(* SpecRun (the scenario loop of the analysis script) and SpecFull (the    *)
(* analyzer's run_full_analysis, from validation to the contingency loop). *)
(***************************************************************************)
EXTENDS Integers, Sequences, FiniteSets, TLC

VARIABLES
    \* ---- contingency engine -------------------------------------------
    loaded_status,            \* in-service flag of each element when the model was loaded
    operational_status,       \* NetworkElement.operational_status, per element
    outserv,                  \* the solver object's outserv attribute, per element
    contingency_states,       \* ContingencyManager._contingency_states
    active_contingency,       \* ContingencyManager._active_contingency
    pc,                       \* position inside run_contingency_analysis
    contingency_elements,     \* local: the candidate list of the running sweep
    idx,                      \* local: loop index i of the running sweep
    total_contingencies,      \* local counters of the running sweep
    successful_contingencies,
    failed_contingencies,
    analysis_results,         \* local: tags whose callback results were appended
    cb_log,                   \* every callback invocation, with the outages seen
    sweep_in,                 \* the inputs and the entry state of the running sweep
    last_call,                \* the last manager call made outside a sweep
    calls                     \* number of manager calls made so far (bounded)

contVars == <<loaded_status, operational_status, outserv, contingency_states,
              active_contingency, pc, contingency_elements, idx, total_contingencies,
              successful_contingencies, failed_contingencies, analysis_results,
              cb_log, sweep_in, last_call, calls>>

VARIABLES
    \* ---- scenario engine ----------------------------------------------
    load_objects,        \* what get_calc_relevant_objects("*.ElmLod") returns
    live,                \* the solver's attribute values, per <<object, attribute>>
    original_values,     \* ScenarioManager._original_values, in insertion order
    element_original,    \* ScenarioElement.original_value, per scenario and position
    active_scenario,     \* ScenarioManager._active_scenario
    scen_last,           \* the last ScenarioManager call and what it returned
    scen_prev,           \* the call before it
    scen_calls           \* number of ScenarioManager calls made so far (bounded)

scenVars == <<load_objects, live, original_values, element_original,
              active_scenario, scen_last, scen_prev, scen_calls>>

VARIABLES
    \* ---- results aggregator -------------------------------------------
    base_case_results,     \* ResultsManager.base_case_results, in insertion order
    contingency_results,   \* ResultsManager.contingency_results, in insertion order
    processed_violations,  \* ResultsManager._processed_violations (the cache)
    summary_statistics,    \* ResultsManager._summary_statistics (the cache)
    res_last,              \* the last ResultsManager call and its outcome
    res_prev,              \* the call before it
    res_calls              \* number of ResultsManager calls made so far (bounded)

resVars == <<base_case_results, contingency_results, processed_violations,
             summary_statistics, res_last, res_prev, res_calls>>

VARIABLES
    \* ---- analyzers ----------------------------------------------------
    analyzer,       \* the analyzer object: its class, interface and limits
    ana_last        \* the last call made on the analyzer and what it returned

anaVars == <<analyzer, ana_last>>

VARIABLES
    \* ---- stateless helpers --------------------------------------------
    fun_last        \* the last helper applied: its argument and its value

funVars == <<fun_last>>

VARIABLES
    \* ---- solver interface (PowerFactoryInterface) ----------------------
    pf_available,   \* POWERFACTORY_AVAILABLE: the solver module was imported
    pf_app,         \* PowerFactoryInterface._app
    pf_connected,   \* PowerFactoryInterface._connected
    pf_user_id,     \* PowerFactoryInterface._user_id
    pf_last,        \* the last call made on the interface and what it returned
    pf_calls        \* number of interface calls made so far (bounded)

pfVars == <<pf_available, pf_app, pf_connected, pf_user_id, pf_last, pf_calls>>

VARIABLES
    \* ---- NetworkAnalyzer.run_contingency_analysis ----------------------
    na_pc,                   \* position inside run_contingency_analysis
    na_contingencies,        \* local: the names to outage
    na_idx,                  \* local: loop index i
    na_results,              \* local: contingency_results, the names recorded
    na_contingency_results,  \* NetworkAnalyzer.contingency_results
    na_in,                   \* the entry state and the outcomes met by the running call
    na_runs                  \* number of calls made so far (bounded)

netVars == <<na_pc, na_contingencies, na_idx, na_results, na_contingency_results,
             na_in, na_runs>>

VARIABLES
    \* ---- scripts/run_glenrothes_analysis.py: run_scenario_analysis ------
    rs_pc,                   \* position inside run_scenario_analysis
    rs_scenarios,            \* the scenarios argument
    rs_idx,                  \* local: loop index i
    rs_results,              \* local: all_results, the scenarios recorded
    rs_in,                   \* the entry state and the outcomes of the last iteration
    rs_runs                  \* number of calls made so far (bounded)

runVars == <<rs_pc, rs_scenarios, rs_idx, rs_results, rs_in, rs_runs>>

VARIABLES
    \* ---- NetworkAnalyzer.run_full_analysis ------------------------------
    fa_config,               \* NetworkAnalyzer.config
    fa_last,                 \* the last run_full_analysis call and how it ended
    fa_runs                  \* number of calls made so far (bounded)

fullVars == <<fa_config, fa_last, fa_runs>>

vars == <<contVars, scenVars, resVars, anaVars, funVars, pfVars, netVars, runVars, fullVars>>

\* ------------------------------------------------------------- bounds
\* Calls made to the ContingencyManager per behaviour (a sweep is one call).
MaxCalls == 3
\* Calls made to the ScenarioManager per behaviour.
MaxScenCalls == 3
\* Calls made to the ResultsManager per behaviour.
MaxResCalls == 4
\* Highest loading read by the thermal analyzer, in percent.
MaxLoading == 100
\* Highest voltage read or graded, in thousandths of a per-unit.
MaxVoltage == 1080
\* Highest loading graded by the severity function, in percent.
MaxSeverityLoading == 130
\* Calls made to the PowerFactoryInterface per behaviour.
MaxPfCalls == 3
\* Calls of NetworkAnalyzer.run_contingency_analysis per behaviour.
MaxNetRuns == 2
\* Calls of run_scenario_analysis per behaviour, and scenarios handed to one.
MaxLoopRuns == 1
MaxScenarios == 2
\* Calls of NetworkAnalyzer.run_full_analysis per behaviour.
MaxFullRuns == 1

None == "None"

\* An optional value (Optional[...] in the code): absent, or present.
Nothing == <<>>
Some(v) == <<v>>

(***************************************************************************)
(* The network: three lines (thermal kinds) and one busbar.                *)
(***************************************************************************)
ElemSeq == <<"L1", "B1", "L2", "L3">>
Elems == {ElemSeq[i] : i \in 1..Len(ElemSeq)}

\* NetworkElement.is_thermal_element: lines, transformers, couplers.
is_thermal_element(e) == e \in {"L1", "L2", "L3"}

\* The classes searched by apply_contingency / restore_system:
\* '*.ElmLne', '*.ElmTr2', '*.ElmTr3', '*.ElmCoup'.
ThermalObjects == {e \in Elems : is_thermal_element(e)}

RECURSIVE SelectSeqBy(_, _)
\* [x for x in s if x \in keep], order preserved.
SelectSeqBy(s, keep) ==
    IF s = <<>> THEN <<>>
    ELSE (IF Head(s) \in keep THEN <<Head(s)>> ELSE <<>>) \o SelectSeqBy(Tail(s), keep)

SeqToSet(s) == {s[i] : i \in 1..Len(s)}

(***************************************************************************)
(* ContingencyState and the world the manager operates on.                 *)
(***************************************************************************)
ContingencyStatus == {"pending", "active", "completed", "failed", "skipped"}

Untracked ==
    [tracked |-> FALSE, original_status |-> FALSE,
     contingency_status |-> "none", error_message |-> None]

\* The locals of run_contingency_analysis exist only while it runs.  Besides
\* the entry state (start_status, start_out) the record keeps the
\* max_contingencies argument, how the base-case load flow ended (base_solve)
\* and what apply_contingency returned for the candidate processed last
\* (applied).
NoSweep == [apply_fails |-> {}, start_status |-> [e \in Elems |-> TRUE],
            pool |-> {}, env_ok |-> TRUE, max_contingencies |-> Nothing,
            applied |-> FALSE, start_out |-> [e \in Elems |-> 0],
            base_solve |-> "none"]

\* No manager call made yet.
NoCall == [op |-> None, el |-> None, ret |-> FALSE, pre_act |-> None, pre_out |-> {}]

\* ContingencyState(element, original_status): status PENDING, no error.
ContingencyState(orig) ==
    [tracked |-> TRUE, original_status |-> orig,
     contingency_status |-> "pending", error_message |-> None]

\* A world record bundles the four pieces of state the operations touch.
World == [os |-> operational_status, out |-> outserv,
          cs |-> contingency_states, act |-> active_contingency]

\* NetworkElement.set_out_of_service(status); ok is FALSE when the solver
\* object is missing or the attribute write raises.
set_out_of_service(w, e, status, ok) ==
    IF ok
    THEN [w EXCEPT !.out[e] = IF status THEN 1 ELSE 0, !.os[e] = ~status]
    ELSE w

RECURSIVE prepare_loop(_, _)
\* The loop of prepare_contingency_list over the given elements.
prepare_loop(w, elements) ==
    IF elements = <<>> THEN w
    ELSE LET e == Head(elements)
             w1 == IF is_thermal_element(e) /\ w.os[e]
                   THEN [w EXCEPT !.cs[e] = ContingencyState(w.os[e])]
                   ELSE w
         IN prepare_loop(w1, Tail(elements))

\* The list prepare_contingency_list returns.
prepare_result(w, elements) ==
    SelectSeqBy(elements, {e \in Elems : is_thermal_element(e) /\ w.os[e]})

\* A manager whose apply_contingency_element has no guard.
AnotherActiveMut(act, name) == FALSE
\* The guard of apply_contingency_element: another contingency is active.
AnotherActive(act, name) == act # None /\ act # name

apply_contingency_element(w, e, ok) ==
    IF AnotherActive(w.act, e) THEN [w |-> w, ret |-> FALSE]
    ELSE IF ok
    THEN LET w1 == set_out_of_service(w, e, TRUE, TRUE)
             w2 == [w1 EXCEPT !.act = e]
             w3 == IF w.cs[e].tracked
                   THEN [w2 EXCEPT !.cs[e].contingency_status = "active"]
                   ELSE w2
         IN [w |-> w3, ret |-> TRUE]
    ELSE LET w1 == IF w.cs[e].tracked
                   THEN [w EXCEPT !.cs[e].contingency_status = "failed",
                                  !.cs[e].error_message = "Failed to set out of service"]
                   ELSE w
         IN [w |-> w1, ret |-> FALSE]

\* A restore that passes original_status itself (the negation forgotten).
RestoreFlagMut(original_status) == original_status
\* The flag restore_contingency passes to set_out_of_service.
RestoreFlag(original_status) == ~original_status

restore_contingency(w, e, ok) ==
    IF ~w.cs[e].tracked THEN [w |-> w, ret |-> FALSE]
    ELSE IF ok
    THEN LET w1 == set_out_of_service(w, e, RestoreFlag(w.cs[e].original_status), TRUE)
             w2 == [w1 EXCEPT !.cs[e].contingency_status = "completed"]
             w3 == IF w.act = e THEN [w2 EXCEPT !.act = None] ELSE w2
         IN [w |-> w3, ret |-> TRUE]
    ELSE [w |-> [w EXCEPT !.cs[e].contingency_status = "failed",
                          !.cs[e].error_message = "Failed to restore service"],
          ret |-> FALSE]

RECURSIVE restore_all_loop(_, _, _)
\* The loop of restore_all_contingencies over the tracked states; okset
\* holds the elements whose write succeeds during this call.
restore_all_loop(w, todo, okset) ==
    IF todo = <<>> THEN [w |-> w, n |-> 0]
    ELSE LET r == restore_contingency(w, Head(todo), Head(todo) \in okset)
             rest == restore_all_loop(r.w, Tail(todo), okset)
         IN [w |-> rest.w, n |-> rest.n + (IF r.ret THEN 1 ELSE 0)]

restore_all_contingencies(w, okset) ==
    LET tracked == SelectSeqBy(ElemSeq, {e \in Elems : w.cs[e].tracked})
        r == restore_all_loop(w, tracked, okset)
    IN [w |-> [r.w EXCEPT !.act = None], ret |-> r.n = Len(tracked)]

(***************************************************************************)
(* apply_contingency / restore_system address the element by name.  An     *)
(* argument is either a name (a str) or a NetworkElement object; Python's  *)
(* == between the loc_name string and a NetworkElement is False.           *)
(***************************************************************************)
NameArg(n) == [kind |-> "name", id |-> n]
ElementArg(e) == [kind |-> "element", id |-> e]

\* element_name == contingency_name
loc_name_equals(loc_name, arg) == arg.kind = "name" /\ arg.id = loc_name

\* The search loops of apply_contingency / restore_system.
find_target(arg) == {t \in ThermalObjects : loc_name_equals(t, arg)}

apply_contingency(w, arg, ok) ==
    IF find_target(arg) = {} THEN [w |-> w, ret |-> FALSE]
    ELSE LET t == CHOOSE x \in find_target(arg) : TRUE
         IN IF ok
            THEN [w |-> [w EXCEPT !.out[t] = 1, !.act = arg.id], ret |-> TRUE]
            ELSE [w |-> w, ret |-> FALSE]

restore_system(w, ok) ==
    IF w.act = None THEN [w |-> w, ret |-> TRUE]
    ELSE IF find_target(NameArg(w.act)) = {} THEN [w |-> w, ret |-> FALSE]
    ELSE LET t == CHOOSE x \in find_target(NameArg(w.act)) : TRUE
         IN IF ok
            THEN [w |-> [w EXCEPT !.out[t] = 0, !.act = None], ret |-> TRUE]
            ELSE [w |-> w, ret |-> FALSE]

clear_contingency_states(w) ==
    [w EXCEPT !.cs = [e \in Elems |-> Untracked], !.act = None]

(***************************************************************************)
(* One iteration of the candidate loop of run_contingency_analysis         *)
(* (lines 227-255).  The loop hands the NetworkElement itself to           *)
(* apply_contingency, which expects a name.  applyOk, solveOk, cb and      *)
(* restOk are the outcomes of the outage write, the load flow, the         *)
(* analysis callback and the restoring write.                              *)
(***************************************************************************)
CbOutcomes == {"results", "empty", "raise"}

OutOfService(w) == {x \in Elems : w.out[x] = 1 \/ ~w.os[x]}

\* The argument the loop passes to apply_contingency (line 232).
SweepApplyArg(e) == ElementArg(e)

\* A loop body whose failed apply goes on to the next candidate without
\* counting it.
sweep_iteration_uncounted(w, e, applyOk, solveOk, cb, restOk) ==
    LET a == apply_contingency(w, SweepApplyArg(e), applyOk)
    IN IF ~a.ret
       THEN [w |-> a.w, s |-> 0, f |-> 0, res |-> <<>>, log |-> <<>>,
             solved |-> FALSE, applied |-> FALSE]
       ELSE IF ~solveOk
       THEN [w |-> restore_contingency(a.w, e, restOk).w, s |-> 0, f |-> 1,
             res |-> <<>>, log |-> <<>>, solved |-> FALSE, applied |-> TRUE]
       ELSE LET entry == [tag |-> e, out |-> OutOfService(a.w)]
                r == restore_contingency(a.w, e, restOk)
            IN IF cb = "raise"
               THEN [w |-> r.w, s |-> 0, f |-> 1, res |-> <<>>,
                     log |-> <<entry>>, solved |-> TRUE, applied |-> TRUE]
               ELSE [w |-> r.w, s |-> 1, f |-> 0,
                     res |-> IF cb = "results" THEN <<e>> ELSE <<>>,
                     log |-> <<entry>>, solved |-> TRUE, applied |-> TRUE]

sweep_iteration(w, e, applyOk, solveOk, cb, restOk) ==
    LET a == apply_contingency(w, SweepApplyArg(e), applyOk)
    IN IF ~a.ret
       THEN [w |-> a.w, s |-> 0, f |-> 1, res |-> <<>>, log |-> <<>>,
             solved |-> FALSE, applied |-> FALSE]
       ELSE IF ~solveOk
       THEN [w |-> restore_contingency(a.w, e, restOk).w, s |-> 0, f |-> 1,
             res |-> <<>>, log |-> <<>>, solved |-> FALSE, applied |-> TRUE]
       ELSE LET entry == [tag |-> e, out |-> OutOfService(a.w)]
                r == restore_contingency(a.w, e, restOk)
            IN IF cb = "raise"
               THEN [w |-> r.w, s |-> 0, f |-> 1, res |-> <<>>,
                     log |-> <<entry>>, solved |-> TRUE, applied |-> TRUE]
               ELSE [w |-> r.w, s |-> 1, f |-> 0,
                     res |-> IF cb = "results" THEN <<e>> ELSE <<>>,
                     log |-> <<entry>>, solved |-> TRUE, applied |-> TRUE]

\* A sweep that never truncates its candidate list.
KeepAllCandidates(s, max_contingencies) == s

\* Lines 206-207: "if max_contingencies:" is false for None and for 0; the
\* slice contingency_elements[:max_contingencies] keeps the first elements.
truncate(s, max_contingencies) ==
    IF max_contingencies = Nothing \/ max_contingencies[1] = 0 THEN s
    ELSE IF max_contingencies[1] >= Len(s) THEN s
    ELSE SubSeq(s, 1, max_contingencies[1])

(***************************************************************************)
(* Scenario engine: src/src/core/scenario_manager.py.                      *)
(*                                                                         *)
(* Element names are sequences of tokens so that the string operations of  *)
(* the code (the "load_" prefix, the "_p"/"_q" suffixes, replace(),        *)
(* startswith(), endswith()) are computed and not assumed.                 *)
(* Values are integers; a scaling factor is held in percent.               *)
(***************************************************************************)
\* The solver objects a scenario can address: two static generators and
\* two loads, one of them named "D1_q".
GenObjects == {"G1", "G2"}
LoadObjects == {"D1", "D1q"}
ScenObjects == GenObjects \cup LoadObjects

pf_class(o) == IF o \in GenObjects THEN "ElmGenstat" ELSE "ElmLod"

loc_name(o) ==
    CASE o = "G1" -> <<"G1">>
      [] o = "G2" -> <<"G2">>
      [] o = "D1" -> <<"D1">>
      [] o = "D1q" -> <<"D1", "_q">>

\* original_value * scaling_factor, the factor in percent.
Scale(original_value, factor) == (original_value * factor) \div 100

\* A Scenario: its ScenarioElements (name, element_type, scaling_factor)
\* and its load_scaling.
SE(name, type, factor) == [name |-> name, element_type |-> type, scaling_factor |-> factor]

Scenarios ==
    [S1 |-> [elements |-> <<SE(<<"G1">>, "ElmGenstat", 100), SE(<<"G2">>, "ElmGenstat", 50)>>,
             load_scaling |-> 100],
     S2 |-> [elements |-> <<SE(<<"G1">>, "ElmGenstat", 100), SE(<<"G2">>, "ElmGenstat", -100)>>,
             load_scaling |-> 100],
     S3 |-> [elements |-> <<SE(<<"D1">>, "ElmLod", 50)>>, load_scaling |-> 200],
     S4 |-> [elements |-> <<SE(<<"GX">>, "ElmGenstat", 50), SE(<<"G1">>, "ElmGenstat", 200)>>,
             load_scaling |-> 100],
     S5 |-> [elements |-> <<>>, load_scaling |-> 200]]
ScenarioIds == DOMAIN Scenarios

Present(loads) == GenObjects \cup SeqToSet(loads)

\* The attribute a value is read from and scaled on, by element type
\* (_get_element_value, _apply_element_scaling, _restore_element_value).
value_attr(element_type) ==
    CASE element_type = "ElmGenstat" -> "pgini"
      [] element_type = "ElmLod" -> "plini"
      [] element_type = "ElmPvsys" -> "pgini"
      [] OTHER -> None

\* _get_powerfactory_object(element_name, element_type): the objects found.
get_powerfactory_object(loads, element_name, element_type) ==
    {o \in Present(loads) : pf_class(o) = element_type /\ loc_name(o) = element_name}

\* dict operations on the insertion-ordered _original_values.
HasKey(d, k) == \E i \in 1..Len(d) : d[i].key = k
Lookup(d, k) == d[CHOOSE i \in 1..Len(d) : d[i].key = k].value
Store(d, k, v, attr) ==
    IF HasKey(d, k)
    THEN [i \in 1..Len(d) |-> IF d[i].key = k THEN [d[i] EXCEPT !.value = v, !.attr = attr]
                                               ELSE d[i]]
    ELSE Append(d, [key |-> k, value |-> v, attr |-> attr])

\* An apply_scenario that snapshots on every application.
NeedsSnapshotMut(d, name) == TRUE
\* line 137: "if element.name not in self._original_values".
NeedsSnapshot(d, name) == ~HasKey(d, name)

\* A scenario world: the live values, the snapshots and the original_value
\* fields of the ScenarioElements of the scenario being applied.
RECURSIVE store_originals(_, _, _, _, _)
\* lines 136-143, for elements i..n of the scenario.
store_originals(sw, loads, elements, i, rfail) ==
    IF i > Len(elements) THEN sw
    ELSE LET el == elements[i]
             objs == get_powerfactory_object(loads, el.name, el.element_type)
             o == CHOOSE x \in objs : TRUE
             sw1 == IF NeedsSnapshot(sw.orig, el.name) /\ objs # {} /\ o \notin rfail
                       /\ value_attr(el.element_type) # None
                    THEN LET a == <<o, value_attr(el.element_type)>>
                         IN [sw EXCEPT !.orig = Store(sw.orig, el.name, sw.live[a], a),
                                       !.eo[i] = Some(sw.live[a])]
                    ELSE sw
         IN store_originals(sw1, loads, elements, i + 1, rfail)

\* _apply_element_scaling(element): the world after it and what it returns.
apply_element_scaling(sw, loads, el, eo, wfail) ==
    LET objs == get_powerfactory_object(loads, el.name, el.element_type)
        o == CHOOSE x \in objs : TRUE
    IN IF objs = {} \/ eo = Nothing THEN [sw |-> sw, ret |-> FALSE]
       ELSE IF value_attr(el.element_type) = None THEN [sw |-> sw, ret |-> FALSE]
       ELSE IF o \in wfail THEN [sw |-> sw, ret |-> FALSE]
       ELSE [sw |-> [sw EXCEPT !.live[<<o, value_attr(el.element_type)>>] =
                                    Scale(eo[1], el.scaling_factor)],
             ret |-> TRUE]

RECURSIVE scale_elements(_, _, _, _, _)
\* lines 146-151: returns the world and success_count.
scale_elements(sw, loads, elements, i, wfail) ==
    IF i > Len(elements) THEN [sw |-> sw, n |-> 0]
    ELSE LET r == apply_element_scaling(sw, loads, elements[i], sw.eo[i], wfail)
             rest == scale_elements(r.sw, loads, elements, i + 1, wfail)
         IN [sw |-> rest.sw, n |-> rest.n + (IF r.ret THEN 1 ELSE 0)]

\* The keys of _apply_load_scaling.
load_key(o) == <<"load_">> \o loc_name(o)
load_key_p(o) == load_key(o) \o <<"_p">>
load_key_q(o) == load_key(o) \o <<"_q">>

RECURSIVE apply_load_scaling(_, _, _, _, _)
\* _apply_load_scaling(scaling_factor) over the remaining load objects.
apply_load_scaling(sw, todo, scaling_factor, rfail, wfail) ==
    IF todo = <<>> THEN sw
    ELSE LET o == Head(todo)
             p == <<o, "plini">>
             q == <<o, "qlini">>
             \* lines 289-297: store the originals "if not already stored"
             sw1 == IF ~HasKey(sw.orig, load_key(o)) /\ o \notin rfail
                    THEN [sw EXCEPT !.orig = Store(Store(sw.orig, load_key_p(o), sw.live[p], p),
                                                   load_key_q(o), sw.live[q], q)]
                    ELSE sw
             \* lines 300-310: scale both from the stored values
             sw2 == IF HasKey(sw1.orig, load_key_p(o)) /\ o \notin wfail
                    THEN [sw1 EXCEPT !.live[p] = Scale(Lookup(sw1.orig, load_key_p(o)),
                                                       scaling_factor)]
                    ELSE sw1
             sw3 == IF HasKey(sw2.orig, load_key_q(o)) /\ o \notin wfail
                    THEN [sw2 EXCEPT !.live[q] = Scale(Lookup(sw2.orig, load_key_q(o)),
                                                       scaling_factor)]
                    ELSE sw2
         IN apply_load_scaling(sw3, Tail(todo), scaling_factor, rfail, wfail)

\* An apply_scenario that is a transaction: unless every element was scaled
\* it leaves the solver as it was.
apply_scenario_or_nothing(sw, loads, sc, rfail, wfail) ==
    LET s1 == store_originals(sw, loads, sc.elements, 1, rfail)
        s2 == scale_elements(s1, loads, sc.elements, 1, wfail)
        s3 == IF sc.load_scaling # 100
              THEN apply_load_scaling(s2.sw, loads, sc.load_scaling, rfail, wfail)
              ELSE s2.sw
    IN IF s2.n = Len(sc.elements)
       THEN [sw |-> s3, ret |-> TRUE, partial |-> Nothing]
       ELSE [sw |-> [s3 EXCEPT !.live = sw.live], ret |-> FALSE,
             partial |-> <<s2.n, Len(sc.elements)>>]

\* apply_scenario(scenario), lines 132-164.  partial is the count pair of the
\* warning "Partially applied scenario ...: n/total elements" (line 164).
apply_scenario(sw, loads, sc, rfail, wfail) ==
    LET s1 == store_originals(sw, loads, sc.elements, 1, rfail)
        s2 == scale_elements(s1, loads, sc.elements, 1, wfail)
        s3 == IF sc.load_scaling # 100
              THEN apply_load_scaling(s2.sw, loads, sc.load_scaling, rfail, wfail)
              ELSE s2.sw
    IN [sw |-> s3, ret |-> s2.n = Len(sc.elements),
        partial |-> IF s2.n = Len(sc.elements) THEN Nothing
                    ELSE <<s2.n, Len(sc.elements)>>]

RECURSIVE remove_token(_, _)
\* str.replace(token, "")
remove_token(name, token) ==
    IF name = <<>> THEN <<>>
    ELSE (IF Head(name) = token THEN <<>> ELSE <<Head(name)>>) \o remove_token(Tail(name), token)

\* line 329: element_name.replace("load_", "").replace("_p", "").replace("_q", "")
load_name_of_key(key) == remove_token(remove_token(remove_token(key, "load_"), "_p"), "_q")

\* _restore_element_value(element_name, original_value): the live values
\* after it and what it returns.
restore_element_value(lv, loads, key, value, wfail) ==
    IF Head(key) = "load_"
    THEN LET objs == get_powerfactory_object(loads, load_name_of_key(key), "ElmLod")
             o == CHOOSE x \in objs : TRUE
             attr == IF key[Len(key)] = "_p" THEN "plini"
                     ELSE IF key[Len(key)] = "_q" THEN "qlini" ELSE None
         IN IF objs = {} \/ attr = None \/ o \in wfail THEN [live |-> lv, ret |-> FALSE]
            ELSE [live |-> [lv EXCEPT ![<<o, attr>>] = value], ret |-> TRUE]
    ELSE LET found == {t \in {"ElmGenstat", "ElmLod", "ElmPvsys"} :
                          get_powerfactory_object(loads, key, t) # {}}
             \* the first type, in the order tried, under which the name resolves
             t == IF "ElmGenstat" \in found THEN "ElmGenstat"
                  ELSE IF "ElmLod" \in found THEN "ElmLod" ELSE "ElmPvsys"
             o == CHOOSE x \in get_powerfactory_object(loads, key, t) : TRUE
         IN IF found = {} \/ o \in wfail THEN [live |-> lv, ret |-> FALSE]
            ELSE [live |-> [lv EXCEPT ![<<o, value_attr(t)>>] = value], ret |-> TRUE]

RECURSIVE restore_loop(_, _, _, _, _)
\* lines 181-183: returns the live values and success_count.
restore_loop(lv, loads, d, i, wfail) ==
    IF i > Len(d) THEN [live |-> lv, n |-> 0]
    ELSE LET r == restore_element_value(lv, loads, d[i].key, d[i].value, wfail)
             rest == restore_loop(r.live, loads, d, i + 1, wfail)
         IN [live |-> rest.live, n |-> rest.n + (IF r.ret THEN 1 ELSE 0)]

\* restore_original_values(), lines 177-192.
restore_original_values(lv, loads, d, wfail) ==
    LET r == restore_loop(lv, loads, d, 1, wfail)
    IN [live |-> r.live, ret |-> r.n = Len(d)]

(***************************************************************************)
(* Python floats (IEEE-754 doubles).  Per-unit voltages are decimals such  *)
(* as 0.95 that no double holds exactly, and the code compares differences *)
(* of them against decimal thresholds, so the rounding is modelled.        *)
(*                                                                         *)
(* A double x is the pair <<k, e>> with x = (k + e * 2^-60) / 10^6: k is   *)
(* the decimal in millionths and e the rounding residue.  The pair is      *)
(* exact for every double met here (|x| <= 1.5, a multiple of 2^-60), and  *)
(* |e * 2^-60| < 1, so that order is lexicographic.                        *)
(***************************************************************************)
RECURSIVE shiftmod(_, _, _)
\* (x * 2^n) mod m, by n doublings
shiftmod(x, n, m) == IF n = 0 THEN x % m ELSE shiftmod(2 * (x % m), n - 1, m)

RECURSIVE binade(_, _)
\* floor(log2(k / unit)) for k > 0: the binary exponent of the double k/unit
binade(k, unit) ==
    IF k >= unit THEN (IF k < 2 * unit THEN 0 ELSE 1 + binade(k, 2 * unit))
    ELSE binade(2 * k, unit) - 1

\* The double a decimal literal or float(value) yields for thousandths/1000
\* (0 or 0.004 .. 2.0): the multiple of 2^-p nearest to it, p = 52 - binade.
\* r is the part of thousandths * 2^p / 1000 beyond the grid point below;
\* r = 500 (a tie) cannot happen, as 8 divides 2^p.
to_float(thousandths) ==
    IF thousandths = 0 THEN <<0, 0>>
    ELSE LET p == 52 - binade(thousandths, 1000)
             r == shiftmod(thousandths, p, 1000)
             residue == IF r < 500 THEN 0 - r ELSE 1000 - r
         IN <<1000 * thousandths, 1000 * residue * 2^(60 - p)>>

\* x - y; exact in binary for the operands met here (Sterbenz: both lie in
\* [0.5, 1.5] and differ by at most 1).
float_sub(x, y) == <<x[1] - y[1], x[2] - y[2]>>

\* x < y
float_lt(x, y) == x[1] < y[1] \/ (x[1] = y[1] /\ x[2] < y[2])

\* abs(x)
float_abs(x) == IF float_lt(x, <<0, 0>>) THEN <<0 - x[1], 0 - x[2]>> ELSE x

\* x * y rounded to the nearest double, ties to even, for operands that are
\* doubles of thousandths (or differences of such) with 2^-8 <= x * y < 1.
\* With x = (a + ex*h)/1000 and y = (b + ey*h)/1000, h = 2^-60, the exact
\* product times 10^6 is a*b + (a*ey + b*ex)*h + ex*ey*h^2; the grid of the
\* result is 2^-q, which is G in units of h / 10^6.
float_mul(x, y) ==
    LET a == x[1] \div 1000
        b == y[1] \div 1000
        ex == x[2] \div 1000
        ey == y[2] \div 1000
        k == a * b
        E == a * ey + b * ex
        sign(n) == IF n > 0 THEN 1 ELSE IF n < 0 THEN 0 - 1 ELSE 0
        tiny == sign(ex) * sign(ey)
        q == 52 - binade(k, 1000000)
        G == 1000000 * 2^(60 - q)
        R == shiftmod(k, q, 1000000) * 2^(60 - q)
        pos == R + E
        m == pos % G
        below_odd == ((IF shiftmod(k, q, 2000000) >= 1000000 THEN 1 ELSE 0)
                      + (pos - m) \div G) % 2 = 1
        up == 2 * m > G \/ (2 * m = G /\ (tiny > 0 \/ (tiny = 0 /\ below_odd)))
    IN IF k = 0 THEN <<0, 0>>
       ELSE <<k, (pos - m) + (IF up THEN G ELSE 0) - R>>

(***************************************************************************)
(* Results aggregator: src/src/core/results_manager.py.                    *)
(*                                                                         *)
(* A dict is the sequence of its [key, value] entries in insertion order.  *)
(* The outcome of a view is a record: raised (an exception left the call), *)
(* value (what it returned) and from_cache (the value was a cached one).   *)
(***************************************************************************)
\* AnalysisResult (models/analysis_result.py): the element's name, the
\* analysis type, value and limit (thermal: percent) and the status.
AnalysisResult(element, analysis_type, value, limit, status) ==
    [element |-> element, analysis_type |-> analysis_type, value |-> value,
     limit |-> limit, status |-> status]

\* AnalysisResult.is_violation
is_violation(result) == result.status = "violation"

\* The fields of the Violation dataclass (models/violation.py); metadata is
\* the only one with a default.
ViolationFields == {"element", "violation_type", "severity", "value", "limit",
                    "contingency", "region", "timestamp", "metadata"}
ViolationRequired == ViolationFields \ {"metadata"}

\* The keywords _extract_violations passes to Violation(...), lines 130-142.
ExtractKeywords == {"element_name", "element_type", "voltage_level", "region",
                    "analysis_type", "violation_value", "limit_value", "severity",
                    "scenario", "timestamp", "metadata"}

\* The generated dataclass __init__ raises TypeError on an unknown keyword
\* and on a missing required field.
ViolationInitAccepts(keywords) ==
    keywords \subseteq ViolationFields /\ ViolationRequired \subseteq keywords

\* _calculate_severity(result).  Thermal values and limits are whole
\* percentages: value - limit is then exact and, the limit being positive,
\* "(value - limit) / limit * 100 > t" decides as (value - limit) * 100 >
\* t * limit does (a quotient that is not t/100 differs from it by far more
\* than the rounding, and 0.05 * 100, 0.1 * 100, 0.2 * 100 round to 5, 10,
\* 20).  Voltage values and limits are doubles; abs(limit - value) and
\* abs(value - limit) of lines 163-166 are the same double.
\* A grading whose thermal thresholds are reached rather than exceeded.
SeverityAtThreshold(result) ==
    IF result.analysis_type = "thermal"
    THEN LET over == (result.value - result.limit) * 100
         IN IF over >= 20 * result.limit THEN "Critical"
            ELSE IF over >= 10 * result.limit THEN "High"
            ELSE IF over >= 5 * result.limit THEN "Medium"
            ELSE "Low"
    ELSE "Medium"

calculate_severity(result) ==
    IF result.analysis_type = "thermal"
    THEN LET over == (result.value - result.limit) * 100
         IN IF over > 20 * result.limit THEN "Critical"
            ELSE IF over > 10 * result.limit THEN "High"
            ELSE IF over > 5 * result.limit THEN "Medium"
            ELSE "Low"
    ELSE IF result.analysis_type = "voltage"
    THEN LET deviation == float_abs(float_sub(result.limit, result.value))
         IN IF float_lt(to_float(50), deviation) THEN "Critical"
            ELSE IF float_lt(to_float(30), deviation) THEN "High"
            ELSE IF float_lt(to_float(20), deviation) THEN "Medium"
            ELSE "Low"
    ELSE "Medium"

\* AnalysisResult.deviation_percent, as the exact quotient
\* <<numerator, denominator>>: 0 for a zero limit, else
\* (value - limit) / limit * 100.  Thermal values and limits are whole
\* percentages, for which the double decides "< t" as the quotient does.
deviation_percent(result) ==
    IF result.limit = 0 THEN <<0, 1>>
    ELSE <<(result.value - result.limit) * 100, result.limit>>

\* Violation._calculate_severity(deviation_percent): a SeverityLevel.
Violation_calculate_severity(deviation) ==
    LET Abs(x) == IF x < 0 THEN -x ELSE x
        below(t) == Abs(deviation[1]) < t * Abs(deviation[2])
    IN IF below(5) THEN "low"
       ELSE IF below(15) THEN "medium"
       ELSE IF below(30) THEN "high"
       ELSE "critical"

\* Violation.from_analysis_result(result) for a thermal result or a result
\* of neither analysis type: None, or the type and severity of the
\* Violation built.
from_analysis_result(result) ==
    IF result.status # "violation" THEN Nothing
    ELSE IF result.analysis_type = "thermal"
    THEN Some([violation_type |-> "thermal_overload",
               severity |-> Violation_calculate_severity(deviation_percent(result)),
               value |-> result.value, limit |-> result.limit])
    ELSE Nothing

\* What Violation(...) of lines 130-142 holds when its construction succeeds.
Violation(result, scenario) ==
    [element_name |-> result.element, analysis_type |-> result.analysis_type,
     violation_value |-> result.value, limit_value |-> result.limit,
     severity |-> calculate_severity(result), scenario |-> scenario]

Returned(value) == [raised |-> FALSE, value |-> value]
Raised == [raised |-> TRUE, value |-> <<>>]

RECURSIVE extract_violations(_, _, _)
\* _extract_violations(results, scenario, analysis_type)
extract_violations(results, scenario, analysis_type) ==
    IF results = <<>> THEN Returned(<<>>)
    ELSE IF ~is_violation(Head(results))
    THEN extract_violations(Tail(results), scenario, analysis_type)
    ELSE IF ~ViolationInitAccepts(ExtractKeywords) THEN Raised
    ELSE LET rest == extract_violations(Tail(results), scenario, analysis_type)
         IN IF rest.raised THEN Raised
            ELSE Returned(<<Violation(Head(results), scenario)>> \o rest.value)

RECURSIVE extract_dict(_, _)
\* "for analysis_type, results in d.items(): violations.extend(
\*  self._extract_violations(results, scenario, analysis_type))"
extract_dict(d, scenario) ==
    IF d = <<>> THEN Returned(<<>>)
    ELSE LET first == extract_violations(Head(d).value, scenario, Head(d).key)
             rest == extract_dict(Tail(d), scenario)
         IN IF first.raised \/ rest.raised THEN Raised
            ELSE Returned(first.value \o rest.value)

RECURSIVE extract_contingencies(_)
\* lines 115-118: the violations of every contingency, concatenated.
extract_contingencies(cd) ==
    IF cd = <<>> THEN Returned(<<>>)
    ELSE LET first == extract_dict(Head(cd).value, Head(cd).key)
             rest == extract_contingencies(Tail(cd))
         IN IF first.raised \/ rest.raised THEN Raised
            ELSE Returned(first.value \o rest.value)

\* d[k] = v on an insertion-ordered dict.
dict_set(d, k, v) ==
    IF HasKey(d, k)
    THEN [i \in 1..Len(d) |-> IF d[i].key = k THEN [d[i] EXCEPT !.value = v] ELSE d[i]]
    ELSE Append(d, [key |-> k, value |-> v])

\* The manager: base (base_case_results), cont (contingency_results),
\* pv (_processed_violations) and ss (_summary_statistics).
Manager == [base |-> base_case_results, cont |-> contingency_results,
            pv |-> processed_violations, ss |-> summary_statistics]

\* A _clear_cache that leaves both caches in place.
clear_cache_kept(rm) == rm
\* _clear_cache()
clear_cache(rm) == [rm EXCEPT !.pv = Nothing, !.ss = Nothing]

add_base_case_results(rm, analysis_type, results) ==
    clear_cache([rm EXCEPT !.base = dict_set(@, analysis_type, results)])

add_contingency_results(rm, contingency_name, analysis_type, results) ==
    LET c1 == IF ~HasKey(rm.cont, contingency_name)
              THEN dict_set(rm.cont, contingency_name, <<>>)
              ELSE rm.cont
        c2 == dict_set(c1, contingency_name,
                       dict_set(Lookup(c1, contingency_name), analysis_type, results))
    IN clear_cache([rm EXCEPT !.cont = c2])

RECURSIVE add_base_loop(_, _)
\* lines 81-83
add_base_loop(rm, base_case) ==
    IF base_case = <<>> THEN rm
    ELSE add_base_loop(add_base_case_results(rm, Head(base_case).key, Head(base_case).value),
                       Tail(base_case))

RECURSIVE add_contingency_data(_, _, _)
\* lines 88-89, for one contingency
add_contingency_data(rm, contingency_name, contingency_data) ==
    IF contingency_data = <<>> THEN rm
    ELSE add_contingency_data(
             add_contingency_results(rm, contingency_name, Head(contingency_data).key,
                                     Head(contingency_data).value),
             contingency_name, Tail(contingency_data))

RECURSIVE add_contingencies_loop(_, _)
\* lines 86-89
add_contingencies_loop(rm, contingencies) ==
    IF contingencies = <<>> THEN rm
    ELSE add_contingencies_loop(
             add_contingency_data(rm, Head(contingencies).key, Head(contingencies).value),
             Tail(contingencies))

\* add_analysis_results(analysis_results); a missing section is an empty one
\* (the parameter is called results here).
add_analysis_results(rm, results) ==
    add_contingencies_loop(add_base_loop(rm, results.base_case),
                           results.contingencies)

clear_all_results(rm) == clear_cache([rm EXCEPT !.base = <<>>, !.cont = <<>>])

\* get_all_violations(include_contingencies): the manager after the call
\* and the outcome.
get_all_violations(rm, include_contingencies) ==
    IF rm.pv # Nothing
    THEN [rm |-> rm, raised |-> FALSE, value |-> rm.pv[1], from_cache |-> TRUE]
    ELSE LET b == extract_dict(rm.base, "Base Case")
             c == IF include_contingencies THEN extract_contingencies(rm.cont)
                  ELSE Returned(<<>>)
         IN IF b.raised \/ c.raised
            THEN [rm |-> rm, raised |-> TRUE, value |-> <<>>, from_cache |-> FALSE]
            ELSE [rm |-> [rm EXCEPT !.pv = Some(b.value \o c.value)], raised |-> FALSE,
                  value |-> b.value \o c.value, from_cache |-> FALSE]

RECURSIVE get_contingency_violations(_)
\* get_contingency_violations(): a dict contingency name -> violations.
get_contingency_violations(cd) ==
    IF cd = <<>> THEN Returned(<<>>)
    ELSE LET first == extract_dict(Head(cd).value, Head(cd).key)
             rest == get_contingency_violations(Tail(cd))
         IN IF first.raised \/ rest.raised THEN Raised
            ELSE Returned(<<[key |-> Head(cd).key, value |-> first.value]>> \o rest.value)

\* The statistics of lines 264-309 (the regional and the voltage-level
\* breakdowns count attributes of the element that are not modelled).
statistics(all_violations, contingency_violations, cd) ==
    LET \* len([v for v in s if P(v)])
        Count(s, P(_)) == Cardinality({i \in 1..Len(s) : P(s[i])})
        IsBase(v) == v.scenario = "Base Case"
        IsCont(v) == v.scenario # "Base Case"
        IsThermal(v) == v.analysis_type = "thermal"
        IsVoltage(v) == v.analysis_type = "voltage"
        IsCritical(v) == v.severity = "Critical"
        IsHigh(v) == v.severity = "High"
        IsMedium(v) == v.severity = "Medium"
        IsLow(v) == v.severity = "Low"
        HasViolations(c) == c.value # <<>>
    IN [total_violations |-> Len(all_violations),
        base_case_violations |-> Count(all_violations, IsBase),
        contingency_violations |-> Count(all_violations, IsCont),
        thermal_violations |-> Count(all_violations, IsThermal),
        voltage_violations |-> Count(all_violations, IsVoltage),
        critical |-> Count(all_violations, IsCritical),
        high |-> Count(all_violations, IsHigh),
        medium |-> Count(all_violations, IsMedium),
        low |-> Count(all_violations, IsLow),
        total_contingencies_analyzed |-> Len(cd),
        contingencies_with_violations |-> Count(contingency_violations, HasViolations),
        unique_violated_elements |->
            Cardinality({all_violations[i].element_name : i \in 1..Len(all_violations)})]

\* get_summary_statistics(): the manager after the call and the outcome.
get_summary_statistics(rm) ==
    IF rm.ss # Nothing
    THEN [rm |-> rm, raised |-> FALSE, value |-> rm.ss, from_cache |-> TRUE]
    ELSE LET g == get_all_violations(rm, TRUE)
             cv == get_contingency_violations(g.rm.cont)
             stats == statistics(g.value, cv.value, g.rm.cont)
         IN IF g.raised \/ cv.raised
            THEN [rm |-> g.rm, raised |-> TRUE, value |-> Nothing, from_cache |-> FALSE]
            ELSE [rm |-> [g.rm EXCEPT !.ss = Some(stats)], raised |-> FALSE,
                  value |-> Some(stats), from_cache |-> FALSE]

\* get_worst_contingencies(top_n), lines 218-249: the summaries of the
\* contingencies that have violations, sorted by (total_violations,
\* critical_violations), reverse=True (stable: equal keys keep their
\* order), cut to the first top_n (top_n >= 0).
get_worst_contingencies(rm, top_n) ==
    LET contingency_violations == get_contingency_violations(rm.cont)
        count(violations, field, value) ==
            Cardinality({i \in 1..Len(violations) : violations[i][field] = value})
        summary(c) ==
            [contingency_name |-> c.key,
             total_violations |-> Len(c.value),
             critical_violations |-> count(c.value, "severity", "Critical"),
             high_violations |-> count(c.value, "severity", "High"),
             thermal_violations |-> count(c.value, "analysis_type", "thermal"),
             voltage_violations |-> count(c.value, "analysis_type", "voltage")]
        RECURSIVE summaries(_)
        summaries(cv) ==
            IF cv = <<>> THEN <<>>
            ELSE (IF Head(cv).value # <<>> THEN <<summary(Head(cv))>> ELSE <<>>)
                 \o summaries(Tail(cv))
        less(x, y) ==
            \/ x.total_violations < y.total_violations
            \/ /\ x.total_violations = y.total_violations
               /\ x.critical_violations < y.critical_violations
        RECURSIVE insert(_, _)
        insert(sorted, x) ==
            IF sorted = <<>> THEN <<x>>
            ELSE IF less(Head(sorted), x) THEN <<x>> \o sorted
            ELSE <<Head(sorted)>> \o insert(Tail(sorted), x)
        RECURSIVE sort(_, _)
        sort(sorted, s) ==
            IF s = <<>> THEN sorted ELSE sort(insert(sorted, Head(s)), Tail(s))
        ranked == sort(<<>>, summaries(contingency_violations.value))
    IN IF contingency_violations.raised THEN Raised
       ELSE Returned(SubSeq(ranked, 1, IF top_n < Len(ranked) THEN top_n ELSE Len(ranked)))

(***************************************************************************)
(* Analyzers: src/src/analyzers/{base,thermal,voltage}_analyzer.py.        *)
(*                                                                         *)
(* A configuration is [analysis |-> Nothing] for the empty dict, or holds  *)
(* thermal_limits (each key present or not) and voltage_limits (the        *)
(* region -> level -> pair dict as the sequence of its entries).  Loadings *)
(* and thermal limits are whole percentages; per-unit voltages and voltage *)
(* limits are doubles.  A reading is what get_element_attribute returns:   *)
(* None, something float() rejects, or a number.                           *)
(***************************************************************************)
thermal_types == {"ElmLne", "ElmTr2", "ElmTr3", "ElmCoup"}

\* ThermalAnalyzer.__init__, lines 28-38
ThermalAnalyzer(is_connected, config) ==
    LET thermal_config ==
            IF config.analysis = Nothing
            THEN [lines |-> Nothing, transformers |-> Nothing, cables |-> Nothing,
                  default |-> Nothing]
            ELSE config.analysis[1].thermal_limits
        get(entry, default) == IF entry = Nothing THEN default ELSE entry[1]
        default_limit == get(thermal_config.default, 90)
    IN [kind |-> "thermal", is_connected |-> is_connected, config |-> config,
        default_limit |-> default_limit,
        element_limits |->
            [t \in thermal_types |->
                IF t = "ElmLne" THEN get(thermal_config.lines, default_limit)
                ELSE IF t = "ElmCoup" THEN get(thermal_config.cables, default_limit)
                ELSE get(thermal_config.transformers, default_limit)]]

\* VoltageAnalyzer.__init__, lines 28-38
VoltageAnalyzer(is_connected, config) ==
    [kind |-> "voltage", is_connected |-> is_connected, config |-> config,
     voltage_limits |-> IF config.analysis = Nothing THEN <<>>
                        ELSE config.analysis[1].voltage_limits,
     default_limits |-> [min |-> Some(to_float(950)), max |-> Some(to_float(1050))]]

\* A read that turns a missing or non-numeric value into 0.0.
ValueOrZero(reading, attribute) ==
    IF reading.kind # "number"
    THEN (IF attribute = "m:u" THEN Some(to_float(0)) ELSE Some(0))
    ELSE IF attribute = "m:u" THEN Some(to_float(reading.value))
    ELSE Some(reading.value)

\* get_element_value(element, attribute): float(value), or None when the
\* read gave None or float() raised ValueError / TypeError.
get_element_value(reading, attribute) ==
    IF reading.kind # "number" THEN Nothing
    ELSE IF attribute = "m:u" THEN Some(to_float(reading.value))
    ELSE Some(reading.value)

\* determine_result_status(value, limit, analysis_type).  On whole
\* percentages "value > limit * 0.9" decides as 10 * value > 9 * limit does
\* (limit * 0.9 rounds to 0.9 * limit when that is a whole number, and is
\* otherwise at least 0.1 away from every whole value).
determine_result_status(value, limit, analysis_type) ==
    IF analysis_type = "thermal"
    THEN IF value > limit THEN "violation"
         ELSE IF 10 * value > 9 * limit THEN "warning"
         ELSE "normal"
    ELSE IF analysis_type = "voltage"
    THEN LET deviation == float_abs(float_sub(value, to_float(1000)))
             limit_deviation == float_abs(float_sub(limit, to_float(1000)))
         IN IF float_lt(limit_deviation, deviation) THEN "violation"
            ELSE IF float_lt(float_mul(limit_deviation, to_float(900)), deviation)
            THEN "warning"
            ELSE "normal"
    ELSE "normal"

\* create_analysis_result(element, value, limit, contingency, metadata)
create_analysis_result(self, element, value, limit, metadata) ==
    AnalysisResult(element.name, self.kind, value, limit,
                   determine_result_status(value, limit, self.kind))
    @@ [metadata |-> metadata]

DefaultLimitOnly(self, element) == self.default_limit

\* ThermalAnalyzer.get_thermal_limit: element_limits.get(type, default_limit)
get_thermal_limit(self, element) ==
    IF element.element_type \in DOMAIN self.element_limits
    THEN self.element_limits[element.element_type]
    ELSE self.default_limit

\* ThermalAnalyzer.analyze_element (the reads of m:I:bus1 and m:P:bus1 only
\* add metadata entries)
thermal_analyze_element(self, element, reading) ==
    IF element.element_type \notin thermal_types THEN Nothing
    ELSE LET loading == get_element_value(reading, "m:loading")
             limit == get_thermal_limit(self, element)
         IN IF loading = Nothing THEN Nothing
            ELSE Some(create_analysis_result(self, element, loading[1], limit,
                        [element_type_specific_limit |-> limit,
                         current_loading_percent |-> loading[1]]))

\* str(float(element.voltage_level)), the key of the level dict
level_key(voltage_level) ==
    CASE voltage_level = 11 -> "11.0"
      [] voltage_level = 33 -> "33.0"
      [] voltage_level = 132 -> "132.0"

\* VoltageAnalyzer.get_voltage_limits(element)
get_voltage_limits(self, element) ==
    LET found == {i \in 1..Len(self.voltage_limits) :
                     /\ self.voltage_limits[i].region = element.region
                     /\ self.voltage_limits[i].level = level_key(element.voltage_level)}
        level_limits == IF found = {} THEN self.default_limits
                        ELSE self.voltage_limits[CHOOSE i \in found : TRUE].limits
        get(entry, default) == IF entry = Nothing THEN default ELSE entry
    IN [min_limit |-> get(level_limits.min, self.default_limits.min)[1],
        max_limit |-> get(level_limits.max, self.default_limits.max)[1]]

CloserOrTied(voltage_pu, min_limit, max_limit) ==
    ~float_lt(float_abs(float_sub(voltage_pu, max_limit)),
              float_abs(float_sub(voltage_pu, min_limit)))

\* line 116: abs(voltage_pu - min_limit) < abs(voltage_pu - max_limit)
closer_to_min(voltage_pu, min_limit, max_limit) ==
    float_lt(float_abs(float_sub(voltage_pu, min_limit)),
             float_abs(float_sub(voltage_pu, max_limit)))

\* VoltageAnalyzer.analyze_element (the reads of m:U and m:phiu only add
\* metadata entries)
voltage_analyze_element(self, element, reading) ==
    IF element.element_type # "ElmTerm" THEN Nothing
    ELSE LET voltage_pu == get_element_value(reading, "m:u")
             l == get_voltage_limits(self, element)
             v == voltage_pu[1]
             chosen ==
                 IF float_lt(v, l.min_limit)
                 THEN [violation_type |-> "undervoltage", limit_used |-> l.min_limit]
                 ELSE IF float_lt(l.max_limit, v)
                 THEN [violation_type |-> "overvoltage", limit_used |-> l.max_limit]
                 ELSE IF closer_to_min(v, l.min_limit, l.max_limit)
                 THEN [violation_type |-> "normal_low", limit_used |-> l.min_limit]
                 ELSE [violation_type |-> "normal_high", limit_used |-> l.max_limit]
         IN IF voltage_pu = Nothing THEN Nothing
            ELSE Some(create_analysis_result(self, element, v, chosen.limit_used,
                        [voltage_pu |-> v, min_limit |-> l.min_limit,
                         max_limit |-> l.max_limit,
                         violation_type |-> chosen.violation_type,
                         region |-> element.region]))

\* analyze_element of the analyzer's class
analyze_element(self, element, reading) ==
    IF self.kind = "thermal" THEN thermal_analyze_element(self, element, reading)
    ELSE voltage_analyze_element(self, element, reading)

RECURSIVE get_applicable_elements(_, _)
\* get_applicable_elements(elements): the elements of the analyzer's kind
\* that are in service, in order.
get_applicable_elements(self, elements) ==
    IF elements = <<>> THEN <<>>
    ELSE LET element == Head(elements)
             is_kind == IF self.kind = "thermal"
                        THEN element.element_type \in thermal_types
                        ELSE element.element_type = "ElmTerm"
         IN (IF is_kind /\ element.operational_status THEN <<element>> ELSE <<>>)
            \o get_applicable_elements(self, Tail(elements))

RECURSIVE analyze_loop(_, _, _)
\* lines 86-96: "result = self.analyze_element(...); if result:
\* results.append(result)"
analyze_loop(self, applicable_elements, reads) ==
    IF applicable_elements = <<>> THEN <<>>
    ELSE LET result == analyze_element(self, Head(applicable_elements),
                                       reads[Head(applicable_elements).name])
         IN (IF result # Nothing THEN <<result[1]>> ELSE <<>>)
            \o analyze_loop(self, Tail(applicable_elements), reads)

\* analyze_network(elements, contingency)
analyze_network(self, elements, reads) ==
    analyze_loop(self, get_applicable_elements(self, elements), reads)

\* BaseAnalyzer.validate_configuration
base_validate_configuration(self) ==
    IF ~self.is_connected THEN FALSE
    ELSE IF self.config.analysis = Nothing THEN FALSE
    ELSE TRUE

\* A validation that only rejects limits that are not positive.
ValidateWithoutUpperBound(self) ==
    IF ~base_validate_configuration(self) THEN FALSE
    ELSE \A element_type \in DOMAIN self.element_limits :
            ~(self.element_limits[element_type] <= 0)

\* ThermalAnalyzer.validate_configuration
thermal_validate_configuration(self) ==
    IF ~base_validate_configuration(self) THEN FALSE
    ELSE \A element_type \in DOMAIN self.element_limits :
            ~(self.element_limits[element_type] <= 0
              \/ self.element_limits[element_type] > 200)

RECURSIVE validate_voltage_limits(_)
\* lines 366-388, over the entries of the region -> level -> pair dict
validate_voltage_limits(entries) ==
    IF entries = <<>> THEN TRUE
    ELSE LET min_limit == Head(entries).limits.min
             max_limit == Head(entries).limits.max
         IN IF Head(entries).region \notin {"scotland", "england"}
            THEN validate_voltage_limits(Tail(entries))
            ELSE IF min_limit = Nothing \/ max_limit = Nothing THEN FALSE
            ELSE IF ~float_lt(min_limit[1], max_limit[1]) THEN FALSE
            ELSE IF ~float_lt(<<0, 0>>, min_limit[1])
                    \/ ~float_lt(<<0, 0>>, max_limit[1]) THEN FALSE
            ELSE validate_voltage_limits(Tail(entries))

\* VoltageAnalyzer.validate_configuration
voltage_validate_configuration(self) ==
    IF ~base_validate_configuration(self) THEN FALSE
    ELSE validate_voltage_limits(self.voltage_limits)

(***************************************************************************)
(* ScenarioManager.create_bess_scenarios, scenario_manager.py 52-87.       *)
(* Factors are held in percent (1.0 is 100), for which factor * 100 is     *)
(* exact; a name is the sequence of the pieces of its f-string.            *)
(***************************************************************************)
\* str(n) of an int
str_int(n) == IF n < 0 THEN <<"-", ToString(0 - n)>> ELSE <<ToString(n)>>

\* A name that keeps only line 69: int(factor*100) with its sign.
NameWithSign(factor) == <<"BESS_A_100_BESS_B_">> \o str_int(factor)

\* lines 69-71: the name of the scenario of one BESS B factor
bess_scenario_name(factor) ==
    IF factor < 0
    THEN <<"BESS_A_100_BESS_B_", "neg">> \o str_int(IF factor < 0 THEN 0 - factor ELSE factor)
    ELSE <<"BESS_A_100_BESS_B_">> \o str_int(factor)

\* line 66
bess_b_factors == <<100, 80, 60, 40, 0, -40, -60, -80, -100>>

\* create_bess_scenarios(bess_a_name, bess_b_name)
create_bess_scenarios(bess_a_name, bess_b_name) ==
    [i \in 1..Len(bess_b_factors) |->
        [name |-> bess_scenario_name(bess_b_factors[i]),
         elements |-> <<SE(bess_a_name, "ElmGenstat", 100),
                        SE(bess_b_name, "ElmGenstat", bess_b_factors[i])>>,
         load_scaling |-> 100]]

(***************************************************************************)
(* PowerFactoryInterface, powerfactory_interface.py 127-226.  The object   *)
(* is a singleton; self is the record of its three attributes.  env holds  *)
(* what the solver module gives during one call: plain is the value of     *)
(* pf.GetApplication(), ext the outcome of pf.GetApplicationExt(...).      *)
(***************************************************************************)
Handle == "app"
Interface == [app |-> pf_app, connected |-> pf_connected, user_id |-> pf_user_id]
PlainOutcomes == {Handle, None}
ExtOutcomes == {Handle, None, "raise"}
UserIds == {None, "u1"}

\* connect(user_id): the interface after the call and the value returned.
connect(self, user_id, available, plain, ext) ==
    IF ~available THEN [self |-> self, ret |-> FALSE]
    ELSE IF self.connected THEN [self |-> self, ret |-> TRUE]
    ELSE IF user_id # None
    THEN LET s1 == [self EXCEPT !.user_id = user_id]
         IN IF ext = "raise" THEN [self |-> s1, ret |-> FALSE]
            ELSE IF ext = None THEN [self |-> [s1 EXCEPT !.app = None], ret |-> FALSE]
            ELSE [self |-> [s1 EXCEPT !.app = ext, !.connected = TRUE], ret |-> TRUE]
    ELSE LET got == IF plain # None THEN plain
                    ELSE IF ext = "raise" THEN None
                    ELSE ext
         IN IF got = None THEN [self |-> [self EXCEPT !.app = None], ret |-> FALSE]
            ELSE [self |-> [self EXCEPT !.app = got, !.connected = TRUE], ret |-> TRUE]

\* disconnect()
disconnect(self) == [self EXCEPT !.app = None, !.connected = FALSE]

\* The property app: "if not self._connected: self.connect()" and then
\* "return self._app".
app(self, available, plain, ext) ==
    LET s1 == IF ~self.connected THEN connect(self, None, available, plain, ext).self
              ELSE self
    IN [self |-> s1, ret |-> s1.app]

\* The property is_connected.
is_connected(self) == self.connected /\ self.app # None

NoPfCall == [op |-> None, prev |-> None, ret |-> None]

(***************************************************************************)
(* NetworkAnalyzer.run_contingency_analysis, network_analyzer.py 288-347,  *)
(* over the by-name operations of the ContingencyManager.                  *)
(***************************************************************************)
\* get_n1_contingencies(): the names of the thermal objects whose outserv
\* is 0, in the order the solver lists them; none without a connection.
get_n1_contingencies(w, connected) ==
    IF ~connected THEN <<>>
    ELSE SelectSeqBy(ElemSeq, {t \in ThermalObjects : w.out[t] = 0})

\* line 306: the default of the option max_contingencies
DefaultMaxContingencies == 1000

\* lines 308-310
limit_contingencies(contingencies, max_contingencies) ==
    IF Len(contingencies) > max_contingencies
    THEN SubSeq(contingencies, 1, max_contingencies)
    ELSE contingencies

AnalysisOutcomes == {"results", "raise"}

\* thermal_analyzer.analyze_network(elements, contingency_name) over the
\* cached NetworkElements: the elements a thermal AnalysisResult is made
\* for.  get_applicable_elements keeps the thermal elements whose
\* operational_status is true; analyze_element makes a result when the read
\* of m:loading gives a number, which it does for every element in service
\* and, when outaged_reads, for an element whose outserv is 1 as well.
thermal_analyze_network(w, outaged_reads) ==
    {e \in Elems : /\ is_thermal_element(e) /\ w.os[e]
                   /\ (w.out[e] = 0 \/ outaged_reads)}

\* lines 314-342, one contingency: applyOk, solveOk, analysis and restOk
\* are the outcomes of the outage write, the load flow, the two
\* analyze_network calls and the restoring write; outaged_reads tells
\* whether the solver returns a loading for an element out of service.
contingency_iteration(w, contingency_name, applyOk, solveOk, analysis, outaged_reads, restOk) ==
    LET a == apply_contingency(w, NameArg(contingency_name), applyOk)
        r == restore_system(a.w, restOk)
    IN IF ~a.ret
       THEN [w |-> a.w, recorded |-> FALSE, applied |-> FALSE, solve_failed |-> FALSE,
             restore_failed |-> FALSE, thermal |-> {}]
       ELSE IF ~solveOk
       THEN [w |-> a.w, recorded |-> FALSE, applied |-> TRUE, solve_failed |-> TRUE,
             restore_failed |-> FALSE, thermal |-> {}]
       ELSE [w |-> r.w, recorded |-> analysis = "results", applied |-> TRUE,
             solve_failed |-> FALSE, restore_failed |-> ~r.ret,
             thermal |-> IF analysis = "results"
                         THEN thermal_analyze_network(a.w, outaged_reads)
                         ELSE {}]

\* No call of run_contingency_analysis made yet.
NoRun == [ran |-> FALSE, start_out |-> [e \in Elems |-> 0], applied |-> {},
          solve_failed |-> {}, raised |-> {}, restore_failed |-> {}, thermal |-> {}]

\* The inputs of the aggregator's calls.
AnalysisTypes == {"thermal", "voltage"}
ContingencyNames == {"L1", "L2"}
NormalResult == AnalysisResult("L1", "thermal", 50, 90, "normal")
ViolationResult == AnalysisResult("L2", "thermal", 95, 90, "violation")
Batches == {<<NormalResult>>, <<ViolationResult>>}

\* Complete analysis results as NetworkAnalyzer hands them over: nothing
\* analysed, a contingency without any analysis, base case only, both.
AnalysisInputs ==
    {[base_case |-> <<>>, contingencies |-> <<>>],
     [base_case |-> <<>>, contingencies |-> <<[key |-> "L1", value |-> <<>>]>>],
     [base_case |-> <<[key |-> "thermal", value |-> <<NormalResult>>]>>,
      contingencies |-> <<>>],
     [base_case |-> <<[key |-> "thermal", value |-> <<NormalResult>>]>>,
      contingencies |-> <<[key |-> "L1",
                           value |-> <<[key |-> "thermal",
                                        value |-> <<ViolationResult>>]>>]>>]}

\* The (analysis type, results) batches an add_analysis_results input holds.
RECURSIVE batches_in(_)
batches_in(contingencies) ==
    IF contingencies = <<>> THEN 0
    ELSE Len(Head(contingencies).value) + batches_in(Tail(contingencies))

NoResCall == [op |-> None, inc |-> FALSE, stored |-> FALSE, had_cache |-> FALSE,
              from_cache |-> FALSE, raised |-> FALSE, violations |-> <<>>,
              stats |-> Nothing, top_n |-> 0, worst |-> <<>>]
NoPrevResCall == [op |-> None, stored |-> FALSE, had_cache |-> FALSE]

\* The elements handed to the analyzers: every thermal kind, two busbars
\* and a load; L2 is out of service.
NetworkElement(name, element_type, voltage_level, region, in_service) ==
    [name |-> name, element_type |-> element_type, voltage_level |-> voltage_level,
     region |-> region, operational_status |-> in_service]

NetworkElements ==
    <<NetworkElement("L1", "ElmLne", 33, "scotland", TRUE),
      NetworkElement("T1", "ElmTr2", 33, "scotland", TRUE),
      NetworkElement("B1", "ElmTerm", 33, "scotland", TRUE),
      NetworkElement("B2", "ElmTerm", 11, "england", TRUE),
      NetworkElement("L2", "ElmLne", 33, "scotland", FALSE)>>

CandidateElements ==
    SeqToSet(NetworkElements)
    \cup {NetworkElement("T3", "ElmTr3", 132, "england", TRUE),
          NetworkElement("C1", "ElmCoup", 11, "england", TRUE),
          NetworkElement("D1", "ElmLod", 11, "scotland", TRUE)}

\* thermal_limits dicts: each key absent or present, with limits inside
\* (0, 200], at its ends and outside.
ThermalLimits ==
    [lines : {Nothing, Some(90), Some(0), Some(250)},
     transformers : {Nothing, Some(85)},
     cables : {Nothing, Some(200)},
     default : {Nothing, Some(80), Some(500)}]

\* One entry of the voltage_limits dict, limits in thousandths of a p.u.
VoltageEntry(region, level, min, max) ==
    [region |-> region, level |-> level,
     limits |-> [min |-> Some(to_float(min)), max |-> Some(to_float(max))]]

\* voltage_limits dicts: none, the limits of the test configuration, limits
\* not centred on 1.0, a pair with min > 1, pairs that min >= max or a zero
\* make invalid, a pair without its max, a pair under an unknown region.
VoltageLimits ==
    {<<>>,
     <<VoltageEntry("scotland", "33.0", 970, 1040),
       VoltageEntry("england", "11.0", 950, 1050)>>,
     <<VoltageEntry("scotland", "33.0", 900, 1020)>>,
     <<VoltageEntry("scotland", "33.0", 1010, 1050)>>,
     <<VoltageEntry("scotland", "33.0", 900, 1100)>>,
     <<VoltageEntry("scotland", "33.0", 500, 1500)>>,
     <<VoltageEntry("scotland", "33.0", 1040, 970)>>,
     <<VoltageEntry("scotland", "33.0", 970, 970)>>,
     <<VoltageEntry("scotland", "33.0", 0, 1050)>>,
     <<[region |-> "scotland", level |-> "33.0",
        limits |-> [min |-> Some(to_float(970)), max |-> Nothing]]>>,
     <<VoltageEntry("wales", "33.0", 1040, 970)>>}

EmptyConfig == [analysis |-> Nothing]
NoThermalLimits ==
    [lines |-> Nothing, transformers |-> Nothing, cables |-> Nothing, default |-> Nothing]

\* The analyzers a run can construct: a thermal analyzer over each thermal
\* configuration, a voltage analyzer over each voltage configuration, each
\* on a connected and on a disconnected interface.
Analyzers ==
    {ThermalAnalyzer(c, [analysis |-> Some([thermal_limits |-> t, voltage_limits |-> <<>>])]) :
        c \in BOOLEAN, t \in ThermalLimits}
    \cup {VoltageAnalyzer(c, [analysis |-> Some([thermal_limits |-> NoThermalLimits,
                                                  voltage_limits |-> v])]) :
        c \in BOOLEAN, v \in VoltageLimits}
    \cup {ThermalAnalyzer(c, EmptyConfig) : c \in BOOLEAN}
    \cup {VoltageAnalyzer(c, EmptyConfig) : c \in BOOLEAN}

\* What a read of the measured attribute returns.
NoValue == [kind |-> "none", value |-> 0]
NonNumeric == [kind |-> "text", value |-> 0]
Number(value) == [kind |-> "number", value |-> value]
Readings(kind) ==
    {NoValue, NonNumeric}
    \cup (IF kind = "thermal" THEN {Number(v) : v \in 70..MaxLoading}
          ELSE {Number(v) : v \in 880..MaxVoltage})

\* The reads of one analyze_network call: per element no value, a
\* non-numeric value or a measurement.
NetworkReads(kind) ==
    [{NetworkElements[i].name : i \in 1..Len(NetworkElements)} ->
        {NoValue, NonNumeric, Number(IF kind = "thermal" THEN 95 ELSE 960)}]

NoAnaCall == [op |-> None, element |-> Nothing, reading |-> NoValue,
              result |-> Nothing, reads |-> Nothing, results |-> <<>>, ret |-> FALSE]
AnalyzerAtRest == ThermalAnalyzer(TRUE, EmptyConfig)
NoFunCall == [op |-> None, arg |-> <<>>, ret |-> <<>>]


(***************************************************************************)
(* Actions of the scenario engine.                                         *)
(***************************************************************************)
\* The outcomes of the solver's attribute reads and writes during one call:
\* the objects whose read returns None, the objects whose write fails.
\* At most one object misbehaves per call, in its reads or in its writes.
FailObjects == {"G2", "D1"}
WriteFailures == {{}} \cup {{o} : o \in FailObjects}
Failures == {[rfail |-> {}, wfail |-> w] : w \in WriteFailures}
            \cup {[rfail |-> {o}, wfail |-> {}] : o \in FailObjects}

ScenAttrs == {<<o, "pgini">> : o \in GenObjects}
             \cup {<<o, "plini">> : o \in LoadObjects}
             \cup {<<o, "qlini">> : o \in LoadObjects}

InitialLive ==
    [a \in ScenAttrs |->
        CASE a = <<"G1", "pgini">> -> 40
          [] a = <<"G2", "pgini">> -> 80
          [] a = <<"D1", "plini">> -> 20
          [] a = <<"D1", "qlini">> -> 8
          [] a = <<"D1q", "plini">> -> 12
          [] a = <<"D1q", "qlini">> -> 4]

NoScenCall == [op |-> None, arg |-> None, ret |-> FALSE, env_ok |-> TRUE,
               live_before |-> InitialLive, partial |-> Nothing]
NoPrevCall == [op |-> None, arg |-> None, ret |-> FALSE, env_ok |-> TRUE]

\* run_scenario_analysis not running: nothing met yet.  While it runs the
\* record keeps the solver values found at its start (start_live), whether
\* the solver accepted every restoring write so far (restore_ok), and what
\* the last iteration met: what apply_scenario returned and how the
\* base-case load flow ended.
NoLoop == [start_live |-> InitialLive, restore_ok |-> TRUE,
           apply_ret |-> TRUE, solve |-> "none"]

\* run_full_analysis not called yet.  After a call the record keeps how it
\* ended, whether the interface was connected when it started, whether the
\* solver could be reached, and how many load flows it executed and how many
\* elements it took out of service.
NoFullRun == [outcome |-> "none", was_connected |-> FALSE, reachable |-> FALSE,
              solves |-> 0, outages |-> 0]

InitScen ==
    /\ load_objects \in {<<"D1">>, <<"D1q">>, <<"D1q", "D1">>, <<"D1", "D1q">>}
    /\ live = InitialLive
    /\ original_values = <<>>
    /\ element_original = [s \in ScenarioIds |->
                              [i \in 1..Len(Scenarios[s].elements) |-> Nothing]]
    /\ active_scenario = None
    /\ scen_last = NoScenCall
    /\ scen_prev = NoPrevCall
    /\ scen_calls = 0
    \* the contingency engine at rest
    /\ operational_status = [e \in Elems |-> TRUE]
    /\ loaded_status = operational_status
    /\ outserv = [e \in Elems |-> 0]
    /\ contingency_states = [e \in Elems |-> Untracked]
    /\ active_contingency = None
    /\ pc = "idle"
    /\ contingency_elements = <<>>
    /\ idx = 0
    /\ total_contingencies = 0
    /\ successful_contingencies = 0
    /\ failed_contingencies = 0
    /\ analysis_results = <<>>
    /\ cb_log = <<>>
    /\ sweep_in = NoSweep
    /\ last_call = NoCall
    /\ calls = 0
    \* the results aggregator at rest
    /\ base_case_results = <<>>
    /\ contingency_results = <<>>
    /\ processed_violations = Nothing
    /\ summary_statistics = Nothing
    /\ res_last = NoResCall
    /\ res_prev = NoPrevResCall
    /\ res_calls = 0
    \* the analyzers and the helpers at rest
    /\ analyzer = AnalyzerAtRest
    /\ ana_last = NoAnaCall
    /\ fun_last = NoFunCall
    \* the solver interface and the network analyzer at rest
    /\ pf_available = TRUE
    /\ pf_app = None
    /\ pf_connected = FALSE
    /\ pf_user_id = None
    /\ pf_last = NoPfCall
    /\ pf_calls = 0
    /\ na_pc = "idle"
    /\ na_contingencies = <<>>
    /\ na_idx = 0
    /\ na_results = <<>>
    /\ na_contingency_results = <<>>
    /\ na_in = NoRun
    /\ na_runs = 0
    /\ rs_pc = "idle"
    /\ rs_scenarios = <<>>
    /\ rs_idx = 0
    /\ rs_results = <<>>
    /\ rs_in = NoLoop
    /\ rs_runs = 0
    /\ fa_config = EmptyConfig
    /\ fa_last = NoFullRun
    /\ fa_runs = 0

ScenCalledWith(op, arg, ret, rfail, wfail, partial) ==
    /\ scen_calls < MaxScenCalls
    /\ scen_calls' = scen_calls + 1
    /\ scen_prev' = [op |-> scen_last.op, arg |-> scen_last.arg,
                     ret |-> scen_last.ret, env_ok |-> scen_last.env_ok]
    /\ scen_last' = [op |-> op, arg |-> arg, ret |-> ret,
                     env_ok |-> (rfail = {} /\ wfail = {}), live_before |-> live,
                     partial |-> partial]
    /\ UNCHANGED <<load_objects, contVars, resVars, anaVars, funVars, pfVars, netVars, runVars, fullVars>>

ScenCalled(op, arg, ret, rfail, wfail) ==
    ScenCalledWith(op, arg, ret, rfail, wfail, Nothing)

ApplyScenario(s, rfail, wfail) ==
    \E r \in {apply_scenario([live |-> live, orig |-> original_values,
                              eo |-> element_original[s]],
                             load_objects, Scenarios[s], rfail, wfail)} :
       /\ live' = r.sw.live
       /\ original_values' = r.sw.orig
       /\ element_original' = [element_original EXCEPT ![s] = r.sw.eo]
       /\ active_scenario' = IF r.ret THEN s ELSE active_scenario
       /\ ScenCalledWith("apply_scenario", s, r.ret, rfail, wfail, r.partial)

RestoreOriginalValues(wfail) ==
    \E r \in {restore_original_values(live, load_objects, original_values, wfail)} :
       /\ live' = r.live
       /\ active_scenario' = None
       /\ ScenCalled("restore_original_values", None, r.ret, {}, wfail)
       /\ UNCHANGED <<original_values, element_original>>

ClearStoredValues ==
    /\ original_values' = <<>>
    /\ active_scenario' = None
    /\ ScenCalled("clear_stored_values", None, TRUE, {}, {})
    /\ UNCHANGED <<live, element_original>>

(***************************************************************************)
(* Actions of the contingency engine.                                      *)
(***************************************************************************)
SetWorld(w) ==
    /\ operational_status' = w.os
    /\ outserv' = w.out
    /\ contingency_states' = w.cs
    /\ active_contingency' = w.act

sweepLocals == <<loaded_status, pc, contingency_elements, idx, total_contingencies,
                 successful_contingencies, failed_contingencies,
                 analysis_results, cb_log, sweep_in>>

Idle == pc = "idle" /\ calls < MaxCalls

Called(op, el, ret) ==
    /\ last_call' = [op |-> op, el |-> el, ret |-> ret,
                     pre_act |-> active_contingency,
                     pre_out |-> OutOfService(World)]
    /\ calls' = calls + 1
    /\ UNCHANGED <<sweepLocals, scenVars, resVars, anaVars, funVars, pfVars, netVars, runVars, fullVars>>

InitCont ==
    /\ operational_status \in [Elems -> BOOLEAN]
    /\ loaded_status = operational_status
    /\ outserv = [e \in Elems |-> IF operational_status[e] THEN 0 ELSE 1]
    /\ contingency_states = [e \in Elems |-> Untracked]
    /\ active_contingency = None
    /\ pc = "idle"
    /\ contingency_elements = <<>>
    /\ idx = 0
    /\ total_contingencies = 0
    /\ successful_contingencies = 0
    /\ failed_contingencies = 0
    /\ analysis_results = <<>>
    /\ cb_log = <<>>
    /\ sweep_in = NoSweep
    /\ last_call = NoCall
    /\ calls = 0
    \* the scenario engine at rest
    /\ load_objects = <<"D1">>
    /\ live = InitialLive
    /\ original_values = <<>>
    /\ element_original = [s \in ScenarioIds |->
                              [i \in 1..Len(Scenarios[s].elements) |-> Nothing]]
    /\ active_scenario = None
    /\ scen_last = NoScenCall
    /\ scen_prev = NoPrevCall
    /\ scen_calls = 0
    \* the results aggregator at rest
    /\ base_case_results = <<>>
    /\ contingency_results = <<>>
    /\ processed_violations = Nothing
    /\ summary_statistics = Nothing
    /\ res_last = NoResCall
    /\ res_prev = NoPrevResCall
    /\ res_calls = 0
    \* the analyzers and the helpers at rest
    /\ analyzer = AnalyzerAtRest
    /\ ana_last = NoAnaCall
    /\ fun_last = NoFunCall
    \* the solver interface and the network analyzer at rest
    /\ pf_available = TRUE
    /\ pf_app = None
    /\ pf_connected = FALSE
    /\ pf_user_id = None
    /\ pf_last = NoPfCall
    /\ pf_calls = 0
    /\ na_pc = "idle"
    /\ na_contingencies = <<>>
    /\ na_idx = 0
    /\ na_results = <<>>
    /\ na_contingency_results = <<>>
    /\ na_in = NoRun
    /\ na_runs = 0
    /\ rs_pc = "idle"
    /\ rs_scenarios = <<>>
    /\ rs_idx = 0
    /\ rs_results = <<>>
    /\ rs_in = NoLoop
    /\ rs_runs = 0
    /\ fa_config = EmptyConfig
    /\ fa_last = NoFullRun
    /\ fa_runs = 0

PrepareContingencyList ==
    /\ Idle
    /\ \E w \in {prepare_loop(World, ElemSeq)} : SetWorld(w)
    /\ Called("prepare_contingency_list", None, TRUE)

ApplyContingencyElement(e, ok) ==
    /\ Idle
    /\ \E r \in {apply_contingency_element(World, e, ok)} :
          SetWorld(r.w) /\ Called("apply_contingency_element", e, r.ret)

ApplyContingency(n, ok) ==
    /\ Idle
    /\ \E r \in {apply_contingency(World, NameArg(n), ok)} :
          SetWorld(r.w) /\ Called("apply_contingency", n, r.ret)

RestoreContingency(e, ok) ==
    /\ Idle
    /\ \E r \in {restore_contingency(World, e, ok)} :
          SetWorld(r.w) /\ Called("restore_contingency", e, r.ret)

RestoreSystem(ok) ==
    /\ Idle
    /\ \E r \in {restore_system(World, ok)} :
          SetWorld(r.w) /\ Called("restore_system", None, r.ret)

RestoreAllContingencies(okset) ==
    /\ Idle
    /\ \E r \in {restore_all_contingencies(World, okset)} :
          SetWorld(r.w) /\ Called("restore_all_contingencies", None, r.ret)

ClearContingencyStates ==
    /\ Idle
    /\ \E w \in {clear_contingency_states(World)} : SetWorld(w)
    /\ Called("clear_contingency_states", None, TRUE)

\* The max_contingencies arguments a caller passes: None (the default), or a
\* number from 0 to the most candidates there can be.
MaxContingenciesArgs ==
    {Nothing} \cup {Some(k) : k \in 0..Cardinality(ThermalObjects)}

\* run_contingency_analysis, lines 201-212: prepare, truncate, zero counters.
SweepStart(max_contingencies, F) ==
    /\ Idle
    /\ \E w \in {prepare_loop(World, ElemSeq)} : SetWorld(w)
    /\ contingency_elements' = truncate(prepare_result(World, ElemSeq), max_contingencies)
    /\ total_contingencies' = Len(contingency_elements')
    /\ successful_contingencies' = 0
    /\ failed_contingencies' = 0
    /\ analysis_results' = <<>>
    /\ cb_log' = <<>>
    /\ idx' = 1
    /\ sweep_in' = [apply_fails |-> F,
                    start_status |-> operational_status,
                    pool |-> SeqToSet(prepare_result(World, ElemSeq)),
                    env_ok |-> TRUE, max_contingencies |-> max_contingencies,
                    applied |-> FALSE, start_out |-> outserv,
                    base_solve |-> "none"]
    /\ pc' = "base"
    /\ last_call' = NoCall
    /\ calls' = calls + 1
    /\ UNCHANGED <<loaded_status, scenVars, resVars, anaVars, funVars, pfVars, netVars, runVars, fullVars>>

\* A sweep that gives up when the base-case load flow fails.
AbortOnBaseFailure(solveOk, cb) ==
    /\ pc = "base"
    /\ cb_log' = IF solveOk
                 THEN Append(cb_log, [tag |-> "base_case", out |-> OutOfService(World)])
                 ELSE cb_log
    /\ analysis_results' = IF solveOk /\ cb = "results"
                           THEN Append(analysis_results, "base_case")
                           ELSE analysis_results
    /\ sweep_in' = [sweep_in EXCEPT
                      !.env_ok = solveOk /\ cb # "raise",
                      !.base_solve = IF solveOk THEN "ok" ELSE "failed"]
    /\ pc' = IF solveOk THEN "loop" ELSE "done"
    /\ UNCHANGED <<loaded_status, operational_status, outserv, contingency_states,
                   active_contingency,
                   contingency_elements, idx, total_contingencies,
                   successful_contingencies, failed_contingencies, last_call, calls,
                   scenVars, resVars, anaVars, funVars, pfVars, netVars, runVars, fullVars>>

\* lines 214-224: the base case.
SweepBaseCase(solveOk, cb) ==
    /\ pc = "base"
    /\ cb_log' = IF solveOk
                 THEN Append(cb_log, [tag |-> "base_case", out |-> OutOfService(World)])
                 ELSE cb_log
    /\ analysis_results' = IF solveOk /\ cb = "results"
                           THEN Append(analysis_results, "base_case")
                           ELSE analysis_results
    /\ sweep_in' = [sweep_in EXCEPT
                      !.env_ok = solveOk /\ cb # "raise",
                      !.base_solve = IF solveOk THEN "ok" ELSE "failed"]
    /\ pc' = "loop"
    /\ UNCHANGED <<loaded_status, operational_status, outserv, contingency_states,
                   active_contingency,
                   contingency_elements, idx, total_contingencies,
                   successful_contingencies, failed_contingencies, last_call, calls,
                   scenVars, resVars, anaVars, funVars, pfVars, netVars, runVars, fullVars>>

\* lines 227-255: one candidate.
SweepCandidate(solveOk, cb, restOk) ==
    /\ pc = "loop"
    /\ idx <= Len(contingency_elements)
    /\ \E r \in {sweep_iteration(World, contingency_elements[idx],
                                   contingency_elements[idx] \notin sweep_in.apply_fails,
                                   solveOk, cb, restOk)} :
          /\ SetWorld(r.w)
          /\ successful_contingencies' = successful_contingencies + r.s
          /\ failed_contingencies' = failed_contingencies + r.f
          /\ analysis_results' = analysis_results \o r.res
          /\ cb_log' = cb_log \o r.log
          /\ sweep_in' = [sweep_in EXCEPT
                            !.env_ok = @ /\ (r.solved => (solveOk /\ cb # "raise")),
                            !.applied = r.applied]
    /\ idx' = idx + 1
    /\ UNCHANGED <<loaded_status, pc, contingency_elements, total_contingencies,
                   last_call, calls, scenVars, resVars, anaVars, funVars, pfVars, netVars, runVars, fullVars>>

\* lines 257-274: final restoration, result compiled and returned.
SweepFinal(okset) ==
    /\ pc = "loop"
    /\ idx > Len(contingency_elements)
    /\ \E r \in {restore_all_contingencies(World, okset)} : SetWorld(r.w)
    /\ pc' = "done"
    /\ UNCHANGED <<loaded_status, contingency_elements, idx, total_contingencies,
                   successful_contingencies, failed_contingencies, analysis_results,
                   cb_log, sweep_in, last_call, calls, scenVars, resVars, anaVars, funVars, pfVars, netVars, runVars, fullVars>>

\* The caller takes the result; the manager is idle again.
SweepReturn ==
    /\ pc = "done"
    /\ pc' = "idle"
    /\ contingency_elements' = <<>>
    /\ idx' = 0
    /\ total_contingencies' = 0
    /\ successful_contingencies' = 0
    /\ failed_contingencies' = 0
    /\ analysis_results' = <<>>
    /\ cb_log' = <<>>
    /\ sweep_in' = NoSweep
    /\ UNCHANGED <<loaded_status, operational_status, outserv, contingency_states,
                   active_contingency, last_call, calls, scenVars, resVars, anaVars, funVars, pfVars, netVars, runVars, fullVars>>

(***************************************************************************)
(* Actions of the results aggregator.                                      *)
(***************************************************************************)
InitRes ==
    /\ base_case_results = <<>>
    /\ contingency_results = <<>>
    /\ processed_violations = Nothing
    /\ summary_statistics = Nothing
    /\ res_last = NoResCall
    /\ res_prev = NoPrevResCall
    /\ res_calls = 0
    \* the contingency engine at rest
    /\ operational_status = [e \in Elems |-> TRUE]
    /\ loaded_status = operational_status
    /\ outserv = [e \in Elems |-> 0]
    /\ contingency_states = [e \in Elems |-> Untracked]
    /\ active_contingency = None
    /\ pc = "idle"
    /\ contingency_elements = <<>>
    /\ idx = 0
    /\ total_contingencies = 0
    /\ successful_contingencies = 0
    /\ failed_contingencies = 0
    /\ analysis_results = <<>>
    /\ cb_log = <<>>
    /\ sweep_in = NoSweep
    /\ last_call = NoCall
    /\ calls = 0
    \* the scenario engine at rest
    /\ load_objects = <<"D1">>
    /\ live = InitialLive
    /\ original_values = <<>>
    /\ element_original = [s \in ScenarioIds |->
                              [i \in 1..Len(Scenarios[s].elements) |-> Nothing]]
    /\ active_scenario = None
    /\ scen_last = NoScenCall
    /\ scen_prev = NoPrevCall
    /\ scen_calls = 0
    \* the analyzers and the helpers at rest
    /\ analyzer = AnalyzerAtRest
    /\ ana_last = NoAnaCall
    /\ fun_last = NoFunCall
    \* the solver interface and the network analyzer at rest
    /\ pf_available = TRUE
    /\ pf_app = None
    /\ pf_connected = FALSE
    /\ pf_user_id = None
    /\ pf_last = NoPfCall
    /\ pf_calls = 0
    /\ na_pc = "idle"
    /\ na_contingencies = <<>>
    /\ na_idx = 0
    /\ na_results = <<>>
    /\ na_contingency_results = <<>>
    /\ na_in = NoRun
    /\ na_runs = 0
    /\ rs_pc = "idle"
    /\ rs_scenarios = <<>>
    /\ rs_idx = 0
    /\ rs_results = <<>>
    /\ rs_in = NoLoop
    /\ rs_runs = 0
    /\ fa_config = EmptyConfig
    /\ fa_last = NoFullRun
    /\ fa_runs = 0

SetManager(rm) ==
    /\ base_case_results' = rm.base
    /\ contingency_results' = rm.cont
    /\ processed_violations' = rm.pv
    /\ summary_statistics' = rm.ss

ResCalled(call) ==
    /\ res_calls < MaxResCalls
    /\ res_calls' = res_calls + 1
    /\ res_prev' = [op |-> res_last.op, stored |-> res_last.stored,
                    had_cache |-> res_last.had_cache]
    /\ res_last' = [call EXCEPT !.had_cache = processed_violations # Nothing]
    /\ UNCHANGED <<contVars, scenVars, anaVars, funVars, pfVars, netVars, runVars, fullVars>>

AddBaseCaseResults(analysis_type, results) ==
    /\ \E rm \in {add_base_case_results(Manager, analysis_type, results)} : SetManager(rm)
    /\ ResCalled([NoResCall EXCEPT !.op = "add_base_case_results", !.stored = TRUE])

AddContingencyResults(contingency_name, analysis_type, results) ==
    /\ \E rm \in {add_contingency_results(Manager, contingency_name,
                                         analysis_type, results)} : SetManager(rm)
    /\ ResCalled([NoResCall EXCEPT !.op = "add_contingency_results", !.stored = TRUE])

AddAnalysisResults(a) ==
    /\ \E rm \in {add_analysis_results(Manager, a)} : SetManager(rm)
    /\ ResCalled([NoResCall EXCEPT
                    !.op = "add_analysis_results",
                    !.stored = (Len(a.base_case) + batches_in(a.contingencies) > 0)])

ClearAllResults ==
    /\ \E rm \in {clear_all_results(Manager)} : SetManager(rm)
    /\ ResCalled([NoResCall EXCEPT !.op = "clear_all_results", !.stored = TRUE])

GetAllViolations(include_contingencies) ==
    \E r \in {get_all_violations(Manager, include_contingencies)} :
       /\ SetManager(r.rm)
       /\ ResCalled([NoResCall EXCEPT !.op = "get_all_violations",
                                      !.inc = include_contingencies,
                                      !.from_cache = r.from_cache,
                                      !.raised = r.raised,
                                      !.violations = r.value])

GetSummaryStatistics ==
    \E r \in {get_summary_statistics(Manager)} :
       /\ SetManager(r.rm)
       /\ ResCalled([NoResCall EXCEPT !.op = "get_summary_statistics",
                                      !.from_cache = r.from_cache,
                                      !.raised = r.raised,
                                      !.stats = r.value])

GetWorstContingencies(top_n) ==
    \E r \in {get_worst_contingencies(Manager, top_n)} :
       /\ SetManager(Manager)
       /\ ResCalled([NoResCall EXCEPT !.op = "get_worst_contingencies",
                                      !.top_n = top_n,
                                      !.raised = r.raised,
                                      !.worst = r.value])

(***************************************************************************)
(* Actions of the analyzers: one analyzer, constructed over one            *)
(* configuration, and the calls made on it.                                *)
(***************************************************************************)
InitAna ==
    /\ analyzer \in Analyzers
    /\ ana_last = NoAnaCall
    \* the contingency engine at rest
    /\ operational_status = [e \in Elems |-> TRUE]
    /\ loaded_status = operational_status
    /\ outserv = [e \in Elems |-> 0]
    /\ contingency_states = [e \in Elems |-> Untracked]
    /\ active_contingency = None
    /\ pc = "idle"
    /\ contingency_elements = <<>>
    /\ idx = 0
    /\ total_contingencies = 0
    /\ successful_contingencies = 0
    /\ failed_contingencies = 0
    /\ analysis_results = <<>>
    /\ cb_log = <<>>
    /\ sweep_in = NoSweep
    /\ last_call = NoCall
    /\ calls = 0
    \* the scenario engine at rest
    /\ load_objects = <<"D1">>
    /\ live = InitialLive
    /\ original_values = <<>>
    /\ element_original = [s \in ScenarioIds |->
                              [i \in 1..Len(Scenarios[s].elements) |-> Nothing]]
    /\ active_scenario = None
    /\ scen_last = NoScenCall
    /\ scen_prev = NoPrevCall
    /\ scen_calls = 0
    \* the results aggregator at rest
    /\ base_case_results = <<>>
    /\ contingency_results = <<>>
    /\ processed_violations = Nothing
    /\ summary_statistics = Nothing
    /\ res_last = NoResCall
    /\ res_prev = NoPrevResCall
    /\ res_calls = 0
    \* the helpers at rest
    /\ fun_last = NoFunCall
    \* the solver interface and the network analyzer at rest
    /\ pf_available = TRUE
    /\ pf_app = None
    /\ pf_connected = FALSE
    /\ pf_user_id = None
    /\ pf_last = NoPfCall
    /\ pf_calls = 0
    /\ na_pc = "idle"
    /\ na_contingencies = <<>>
    /\ na_idx = 0
    /\ na_results = <<>>
    /\ na_contingency_results = <<>>
    /\ na_in = NoRun
    /\ na_runs = 0
    /\ rs_pc = "idle"
    /\ rs_scenarios = <<>>
    /\ rs_idx = 0
    /\ rs_results = <<>>
    /\ rs_in = NoLoop
    /\ rs_runs = 0
    /\ fa_config = EmptyConfig
    /\ fa_last = NoFullRun
    /\ fa_runs = 0

\* An analyzer keeps nothing from one call to the next: a behaviour makes
\* one call.
AnaCalled(call) ==
    /\ ana_last = NoAnaCall
    /\ ana_last' = call
    /\ UNCHANGED <<analyzer, contVars, scenVars, resVars, funVars, pfVars, netVars, runVars, fullVars>>

\* ThermalAnalyzer.analyze_element(element)
ThermalAnalyzeElement ==
    /\ analyzer.kind = "thermal"
    /\ \E element \in CandidateElements, reading \in Readings("thermal") :
          AnaCalled([NoAnaCall EXCEPT !.op = "analyze_element",
                        !.element = Some(element), !.reading = reading,
                        !.result = thermal_analyze_element(analyzer, element, reading)])

\* VoltageAnalyzer.analyze_element(element)
VoltageAnalyzeElement ==
    /\ analyzer.kind = "voltage"
    /\ \E element \in CandidateElements, reading \in Readings("voltage") :
          AnaCalled([NoAnaCall EXCEPT !.op = "analyze_element",
                        !.element = Some(element), !.reading = reading,
                        !.result = voltage_analyze_element(analyzer, element, reading)])

\* analyze_network(elements)
AnalyzeNetwork ==
    \E reads \in NetworkReads(analyzer.kind) :
        AnaCalled([NoAnaCall EXCEPT !.op = "analyze_network", !.reads = Some(reads),
                      !.results = analyze_network(analyzer, NetworkElements, reads)])

\* ThermalAnalyzer.validate_configuration()
ThermalValidateConfiguration ==
    /\ analyzer.kind = "thermal"
    /\ AnaCalled([NoAnaCall EXCEPT !.op = "validate_configuration",
                     !.ret = thermal_validate_configuration(analyzer)])

\* VoltageAnalyzer.validate_configuration()
VoltageValidateConfiguration ==
    /\ analyzer.kind = "voltage"
    /\ AnaCalled([NoAnaCall EXCEPT !.op = "validate_configuration",
                     !.ret = voltage_validate_configuration(analyzer)])

(***************************************************************************)
(* The stateless helpers, applied to drawn inputs: a behaviour applies one *)
(* of them once.                                                           *)
(***************************************************************************)
\* Violating results handed to _calculate_severity: thermal loadings
\* against the limits 90 and 100, voltages against each limit of the
\* test configuration, and a result of neither type.
ThermalSeverityInputs ==
    {AnalysisResult("L1", "thermal", v, l, "violation") :
        v \in 85..MaxSeverityLoading, l \in {90, 100}}
    \cup {AnalysisResult("B1", "other", 0, 0, "violation")}
VoltageSeverityInputs ==
    {AnalysisResult("B1", "voltage", to_float(v), to_float(l), "violation") :
        v \in 880..MaxVoltage, l \in {950, 970, 1040, 1050}}

\* Results within their limit, which from_analysis_result turns down.
NormalResults ==
    {AnalysisResult("L1", "thermal", v, 100, "normal") : v \in {50, 85}}

BessNames == {<<"G1">>, <<"G2">>, <<"BESS", "_", "A">>}

InitFun ==
    /\ fun_last = NoFunCall
    \* the contingency engine at rest
    /\ operational_status = [e \in Elems |-> TRUE]
    /\ loaded_status = operational_status
    /\ outserv = [e \in Elems |-> 0]
    /\ contingency_states = [e \in Elems |-> Untracked]
    /\ active_contingency = None
    /\ pc = "idle"
    /\ contingency_elements = <<>>
    /\ idx = 0
    /\ total_contingencies = 0
    /\ successful_contingencies = 0
    /\ failed_contingencies = 0
    /\ analysis_results = <<>>
    /\ cb_log = <<>>
    /\ sweep_in = NoSweep
    /\ last_call = NoCall
    /\ calls = 0
    \* the scenario engine at rest
    /\ load_objects = <<"D1">>
    /\ live = InitialLive
    /\ original_values = <<>>
    /\ element_original = [s \in ScenarioIds |->
                              [i \in 1..Len(Scenarios[s].elements) |-> Nothing]]
    /\ active_scenario = None
    /\ scen_last = NoScenCall
    /\ scen_prev = NoPrevCall
    /\ scen_calls = 0
    \* the results aggregator at rest
    /\ base_case_results = <<>>
    /\ contingency_results = <<>>
    /\ processed_violations = Nothing
    /\ summary_statistics = Nothing
    /\ res_last = NoResCall
    /\ res_prev = NoPrevResCall
    /\ res_calls = 0
    \* the analyzers at rest
    /\ analyzer = AnalyzerAtRest
    /\ ana_last = NoAnaCall
    \* the solver interface and the network analyzer at rest
    /\ pf_available = TRUE
    /\ pf_app = None
    /\ pf_connected = FALSE
    /\ pf_user_id = None
    /\ pf_last = NoPfCall
    /\ pf_calls = 0
    /\ na_pc = "idle"
    /\ na_contingencies = <<>>
    /\ na_idx = 0
    /\ na_results = <<>>
    /\ na_contingency_results = <<>>
    /\ na_in = NoRun
    /\ na_runs = 0
    /\ rs_pc = "idle"
    /\ rs_scenarios = <<>>
    /\ rs_idx = 0
    /\ rs_results = <<>>
    /\ rs_in = NoLoop
    /\ rs_runs = 0
    /\ fa_config = EmptyConfig
    /\ fa_last = NoFullRun
    /\ fa_runs = 0

FunCalled(op, arg, ret) ==
    /\ fun_last' = [op |-> op, arg |-> arg, ret |-> ret]
    /\ UNCHANGED <<contVars, scenVars, resVars, anaVars, pfVars, netVars, runVars, fullVars>>

\* ResultsManager._calculate_severity(result)
CalculateSeverity ==
    /\ fun_last = NoFunCall
    /\ \/ \E result \in ThermalSeverityInputs :
             FunCalled("calculate_severity", result, calculate_severity(result))
       \/ \E result \in VoltageSeverityInputs :
             FunCalled("calculate_severity", result, calculate_severity(result))

\* Violation.from_analysis_result(result)
FromAnalysisResult ==
    /\ fun_last = NoFunCall
    /\ \E result \in ThermalSeverityInputs \cup NormalResults :
          FunCalled("from_analysis_result", result, from_analysis_result(result))

\* ScenarioManager.create_bess_scenarios(bess_a_name, bess_b_name)
CreateBessScenarios ==
    /\ fun_last = NoFunCall
    /\ \E bess_a_name \in BessNames, bess_b_name \in BessNames :
          FunCalled("create_bess_scenarios", <<bess_a_name, bess_b_name>>,
                    create_bess_scenarios(bess_a_name, bess_b_name))

(***************************************************************************)
(* Actions of the solver interface.                                        *)
(***************************************************************************)
InitPf ==
    /\ pf_available \in BOOLEAN
    /\ pf_app = None
    /\ pf_connected = FALSE
    /\ pf_user_id = None
    /\ pf_last = NoPfCall
    /\ pf_calls = 0
    /\ na_pc = "idle"
    /\ na_contingencies = <<>>
    /\ na_idx = 0
    /\ na_results = <<>>
    /\ na_contingency_results = <<>>
    /\ na_in = NoRun
    /\ na_runs = 0
    /\ rs_pc = "idle"
    /\ rs_scenarios = <<>>
    /\ rs_idx = 0
    /\ rs_results = <<>>
    /\ rs_in = NoLoop
    /\ rs_runs = 0
    /\ fa_config = EmptyConfig
    /\ fa_last = NoFullRun
    /\ fa_runs = 0
    \* the contingency engine at rest
    /\ operational_status = [e \in Elems |-> TRUE]
    /\ loaded_status = operational_status
    /\ outserv = [e \in Elems |-> 0]
    /\ contingency_states = [e \in Elems |-> Untracked]
    /\ active_contingency = None
    /\ pc = "idle"
    /\ contingency_elements = <<>>
    /\ idx = 0
    /\ total_contingencies = 0
    /\ successful_contingencies = 0
    /\ failed_contingencies = 0
    /\ analysis_results = <<>>
    /\ cb_log = <<>>
    /\ sweep_in = NoSweep
    /\ last_call = NoCall
    /\ calls = 0
    \* the scenario engine at rest
    /\ load_objects = <<"D1">>
    /\ live = InitialLive
    /\ original_values = <<>>
    /\ element_original = [s \in ScenarioIds |->
                              [i \in 1..Len(Scenarios[s].elements) |-> Nothing]]
    /\ active_scenario = None
    /\ scen_last = NoScenCall
    /\ scen_prev = NoPrevCall
    /\ scen_calls = 0
    \* the results aggregator at rest
    /\ base_case_results = <<>>
    /\ contingency_results = <<>>
    /\ processed_violations = Nothing
    /\ summary_statistics = Nothing
    /\ res_last = NoResCall
    /\ res_prev = NoPrevResCall
    /\ res_calls = 0
    \* the analyzers and the helpers at rest
    /\ analyzer = AnalyzerAtRest
    /\ ana_last = NoAnaCall
    /\ fun_last = NoFunCall

SetInterface(self) ==
    /\ pf_app' = self.app
    /\ pf_connected' = self.connected
    /\ pf_user_id' = self.user_id

PfCalled(op, ret) ==
    /\ pf_calls < MaxPfCalls
    /\ pf_calls' = pf_calls + 1
    /\ pf_last' = [op |-> op, prev |-> pf_last.op, ret |-> ret]
    /\ UNCHANGED <<pf_available, contVars, scenVars, resVars, anaVars, funVars, netVars, runVars, fullVars>>

\* connect(user_id)
Connect(user_id, plain, ext) ==
    \E r \in {connect(Interface, user_id, pf_available, plain, ext)} :
       SetInterface(r.self) /\ PfCalled("connect", r.ret)

\* disconnect()
Disconnect ==
    /\ \E self \in {disconnect(Interface)} : SetInterface(self)
    /\ PfCalled("disconnect", None)

\* a read of the property app
App(plain, ext) ==
    \E r \in {app(Interface, pf_available, plain, ext)} :
       SetInterface(r.self) /\ PfCalled("app", r.ret)

\* a read of the property is_connected
IsConnected ==
    /\ SetInterface(Interface)
    /\ PfCalled("is_connected", is_connected(Interface))

(***************************************************************************)
(* Actions of NetworkAnalyzer.run_contingency_analysis.                    *)
(***************************************************************************)
InitNet ==
    /\ na_pc = "idle"
    /\ na_contingencies = <<>>
    /\ na_idx = 0
    /\ na_results = <<>>
    /\ na_contingency_results = <<>>
    /\ na_in = NoRun
    /\ na_runs = 0
    /\ rs_pc = "idle"
    /\ rs_scenarios = <<>>
    /\ rs_idx = 0
    /\ rs_results = <<>>
    /\ rs_in = NoLoop
    /\ rs_runs = 0
    /\ fa_config = EmptyConfig
    /\ fa_last = NoFullRun
    /\ fa_runs = 0
    \* the network as loaded
    /\ operational_status \in [Elems -> BOOLEAN]
    /\ loaded_status = operational_status
    /\ outserv = [e \in Elems |-> IF operational_status[e] THEN 0 ELSE 1]
    \* the contingency engine at rest
    /\ contingency_states = [e \in Elems |-> Untracked]
    /\ active_contingency = None
    /\ pc = "idle"
    /\ contingency_elements = <<>>
    /\ idx = 0
    /\ total_contingencies = 0
    /\ successful_contingencies = 0
    /\ failed_contingencies = 0
    /\ analysis_results = <<>>
    /\ cb_log = <<>>
    /\ sweep_in = NoSweep
    /\ last_call = NoCall
    /\ calls = 0
    \* the scenario engine at rest
    /\ load_objects = <<"D1">>
    /\ live = InitialLive
    /\ original_values = <<>>
    /\ element_original = [s \in ScenarioIds |->
                              [i \in 1..Len(Scenarios[s].elements) |-> Nothing]]
    /\ active_scenario = None
    /\ scen_last = NoScenCall
    /\ scen_prev = NoPrevCall
    /\ scen_calls = 0
    \* the results aggregator at rest
    /\ base_case_results = <<>>
    /\ contingency_results = <<>>
    /\ processed_violations = Nothing
    /\ summary_statistics = Nothing
    /\ res_last = NoResCall
    /\ res_prev = NoPrevResCall
    /\ res_calls = 0
    \* the analyzers, the helpers and the solver interface at rest
    /\ analyzer = AnalyzerAtRest
    /\ ana_last = NoAnaCall
    /\ fun_last = NoFunCall
    /\ pf_available = TRUE
    /\ pf_app = None
    /\ pf_connected = FALSE
    /\ pf_user_id = None
    /\ pf_last = NoPfCall
    /\ pf_calls = 0

\* lines 295-312: the option run_contingency, the names to outage, the cap.
NetBegin(run_contingency, connected, max_contingencies) ==
    /\ na_pc = "idle"
    /\ na_runs < MaxNetRuns
    /\ na_runs' = na_runs + 1
    /\ IF run_contingency
       THEN /\ na_pc' = "loop"
            /\ na_contingencies' =
                  limit_contingencies(get_n1_contingencies(World, connected),
                                      max_contingencies)
            /\ na_idx' = 1
            /\ na_results' = <<>>
            /\ na_in' = [NoRun EXCEPT !.ran = TRUE, !.start_out = outserv]
       ELSE UNCHANGED <<na_pc, na_contingencies, na_idx, na_results, na_in>>
    /\ UNCHANGED na_contingency_results

NetStart(run_contingency, connected, max_contingencies) ==
    /\ NetBegin(run_contingency, connected, max_contingencies)
    /\ UNCHANGED <<contVars, scenVars, resVars, anaVars, funVars, pfVars, runVars,
                   fullVars>>

\* lines 314-342: one contingency.
NetContingency(applyOk, solveOk, analysis, outaged_reads, restOk) ==
    /\ na_pc = "loop"
    /\ na_idx <= Len(na_contingencies)
    /\ \E r \in {contingency_iteration(World, na_contingencies[na_idx], applyOk,
                                         solveOk, analysis, outaged_reads, restOk)} :
          /\ SetWorld(r.w)
          /\ na_results' = IF r.recorded
                           THEN Append(na_results, na_contingencies[na_idx])
                           ELSE na_results
          /\ na_in' = [na_in EXCEPT
                         !.applied = IF r.applied THEN @ \cup {na_contingencies[na_idx]}
                                     ELSE @,
                         !.solve_failed = IF r.solve_failed
                                          THEN @ \cup {na_contingencies[na_idx]} ELSE @,
                         !.raised = IF r.applied /\ ~r.solve_failed /\ ~r.recorded
                                    THEN @ \cup {na_contingencies[na_idx]} ELSE @,
                         !.restore_failed = IF r.restore_failed
                                            THEN @ \cup {na_contingencies[na_idx]}
                                            ELSE @,
                         !.thermal = @ \cup {<<na_contingencies[na_idx], e>> :
                                                 e \in r.thermal}]
    /\ na_idx' = na_idx + 1
    /\ UNCHANGED <<na_pc, na_contingencies, na_contingency_results, na_runs,
                   sweepLocals, last_call, calls, scenVars, resVars, anaVars,
                   funVars, pfVars, runVars, fullVars>>

\* lines 344-347: the results are stored on the analyzer and returned.
NetReturn ==
    /\ na_pc = "loop"
    /\ na_idx > Len(na_contingencies)
    /\ na_contingency_results' = na_results
    /\ na_pc' = "idle"
    /\ UNCHANGED <<na_contingencies, na_idx, na_results, na_in, na_runs,
                   contVars, scenVars, resVars, anaVars, funVars, pfVars, runVars, fullVars>>

(***************************************************************************)
(* run_scenario_analysis, scripts/run_glenrothes_analysis.py 208-284.      *)
(* The contingency loop inside an iteration (lines 247-274) hands the      *)
(* NetworkElement to the by-name apply_contingency, which finds no object  *)
(* of that name: it changes neither the solver nor the manager.            *)
(***************************************************************************)
SolveOutcomes == {"ok", "fail", "raise"}

\* One iteration over scenario s: f are the reads and writes the solver
\* refuses during apply_scenario, solve is how the base-case load flow and
\* analysis end, wfail the writes refused during restore_original_values.
run_scenario_iteration(sw, act, loads, s, f, solve, wfail) ==
    LET a == apply_scenario(sw, loads, Scenarios[s], f.rfail, f.wfail)
        r == restore_original_values(a.sw.live, loads, a.sw.orig, wfail)
    IN IF ~a.ret
       THEN \* lines 220-222: "continue"
            [sw |-> a.sw, act |-> act, recorded |-> FALSE, restore_ok |-> TRUE,
             apply_ret |-> FALSE]
       ELSE \* lines 232-245 and 279-281: restore on every other path
            [sw |-> [a.sw EXCEPT !.live = r.live], act |-> None,
             recorded |-> solve = "ok", restore_ok |-> wfail = {},
             apply_ret |-> TRUE]

\* The scenario lists a caller hands over.
ScenarioLists ==
    UNION {[1..n -> ScenarioIds] : n \in 1..MaxScenarios}

InitRun ==
    /\ load_objects \in {<<"D1">>, <<"D1q">>, <<"D1q", "D1">>, <<"D1", "D1q">>}
    /\ live = InitialLive
    /\ original_values = <<>>
    /\ element_original = [s \in ScenarioIds |->
                              [i \in 1..Len(Scenarios[s].elements) |-> Nothing]]
    /\ active_scenario = None
    /\ scen_last = NoScenCall
    /\ scen_prev = NoPrevCall
    /\ scen_calls = 0
    \* the contingency engine at rest
    /\ operational_status = [e \in Elems |-> TRUE]
    /\ loaded_status = operational_status
    /\ outserv = [e \in Elems |-> 0]
    /\ contingency_states = [e \in Elems |-> Untracked]
    /\ active_contingency = None
    /\ pc = "idle"
    /\ contingency_elements = <<>>
    /\ idx = 0
    /\ total_contingencies = 0
    /\ successful_contingencies = 0
    /\ failed_contingencies = 0
    /\ analysis_results = <<>>
    /\ cb_log = <<>>
    /\ sweep_in = NoSweep
    /\ last_call = NoCall
    /\ calls = 0
    \* the results aggregator at rest
    /\ base_case_results = <<>>
    /\ contingency_results = <<>>
    /\ processed_violations = Nothing
    /\ summary_statistics = Nothing
    /\ res_last = NoResCall
    /\ res_prev = NoPrevResCall
    /\ res_calls = 0
    \* the analyzers and the helpers at rest
    /\ analyzer = AnalyzerAtRest
    /\ ana_last = NoAnaCall
    /\ fun_last = NoFunCall
    \* the solver interface and the network analyzer at rest
    /\ pf_available = TRUE
    /\ pf_app = None
    /\ pf_connected = FALSE
    /\ pf_user_id = None
    /\ pf_last = NoPfCall
    /\ pf_calls = 0
    /\ na_pc = "idle"
    /\ na_contingencies = <<>>
    /\ na_idx = 0
    /\ na_results = <<>>
    /\ na_contingency_results = <<>>
    /\ na_in = NoRun
    /\ na_runs = 0
    /\ rs_pc = "idle"
    /\ rs_scenarios = <<>>
    /\ rs_idx = 0
    /\ rs_results = <<>>
    /\ rs_in = NoLoop
    /\ rs_runs = 0
    /\ fa_config = EmptyConfig
    /\ fa_last = NoFullRun
    /\ fa_runs = 0

RunStart(scenarios) ==
    /\ rs_pc = "idle"
    /\ rs_runs < MaxLoopRuns
    /\ rs_runs' = rs_runs + 1
    /\ rs_pc' = "loop"
    /\ rs_scenarios' = scenarios
    /\ rs_idx' = 1
    /\ rs_results' = <<>>
    /\ rs_in' = [NoLoop EXCEPT !.start_live = live]
    /\ UNCHANGED <<contVars, scenVars, resVars, anaVars, funVars, pfVars, netVars,
                   fullVars>>

\* lines 216-282: one scenario.
RunScenario(f, solve, wfail) ==
    /\ rs_pc = "loop"
    /\ rs_idx <= Len(rs_scenarios)
    /\ \E r \in {run_scenario_iteration(
                     [live |-> live, orig |-> original_values,
                      eo |-> element_original[rs_scenarios[rs_idx]]],
                     active_scenario, load_objects, rs_scenarios[rs_idx],
                     f, solve, wfail)} :
          /\ live' = r.sw.live
          /\ original_values' = r.sw.orig
          /\ element_original' =
                [element_original EXCEPT ![rs_scenarios[rs_idx]] = r.sw.eo]
          /\ active_scenario' = r.act
          /\ rs_results' = IF r.recorded
                           THEN Append(rs_results, rs_scenarios[rs_idx])
                           ELSE rs_results
          /\ rs_in' = [rs_in EXCEPT !.restore_ok = @ /\ r.restore_ok,
                                    !.apply_ret = r.apply_ret,
                                    !.solve = IF r.apply_ret THEN solve ELSE "none"]
    /\ rs_idx' = rs_idx + 1
    /\ UNCHANGED <<rs_pc, rs_scenarios, rs_runs, load_objects, scen_last, scen_prev,
                   scen_calls, contVars, resVars, anaVars, funVars, pfVars, netVars,
                   fullVars>>

\* line 284: all_results is returned.
RunReturn ==
    /\ rs_pc = "loop"
    /\ rs_idx > Len(rs_scenarios)
    /\ rs_pc' = "idle"
    /\ UNCHANGED <<rs_scenarios, rs_idx, rs_results, rs_in, rs_runs,
                   contVars, scenVars, resVars, anaVars, funVars, pfVars, netVars,
                   fullVars>>

(***************************************************************************)
(* NetworkAnalyzer.run_full_analysis, network_analyzer.py 349-385, with    *)
(* _validate_analysis_configuration (431-454), connect_to_powerfactory     *)
(* (97-118) and run_base_case_analysis (246-286).  The analyzers read the  *)
(* connection of the one PowerFactoryInterface the NetworkAnalyzer holds.  *)
(***************************************************************************)
Options(run_base_case, run_contingency) ==
    [run_base_case |-> run_base_case, run_contingency |-> run_contingency]

FullConfig(thermal_limits, voltage_limits, options) ==
    [analysis |-> Some([thermal_limits |-> thermal_limits,
                        voltage_limits |-> voltage_limits, options |-> options])]

TestVoltageLimits ==
    <<VoltageEntry("scotland", "33.0", 970, 1040),
      VoltageEntry("england", "11.0", 950, 1050)>>

\* The configurations a NetworkAnalyzer is built over: the test
\* configuration, the same with contingencies switched off, a line limit of
\* 250 percent, a voltage pair whose min exceeds its max, both analyses
\* switched off, and the empty configuration.
FullConfigs ==
    {FullConfig([NoThermalLimits EXCEPT !.lines = Some(90)], TestVoltageLimits,
                Options(TRUE, TRUE)),
     FullConfig([NoThermalLimits EXCEPT !.lines = Some(90)], TestVoltageLimits,
                Options(TRUE, FALSE)),
     FullConfig([NoThermalLimits EXCEPT !.lines = Some(250)], TestVoltageLimits,
                Options(TRUE, TRUE)),
     FullConfig(NoThermalLimits, <<VoltageEntry("scotland", "33.0", 1040, 970)>>,
                Options(TRUE, TRUE)),
     FullConfig(NoThermalLimits, TestVoltageLimits, Options(FALSE, FALSE)),
     EmptyConfig}

\* _validate_analysis_configuration()
validate_analysis_configuration(self, config) ==
    IF ~thermal_validate_configuration(ThermalAnalyzer(is_connected(self), config))
    THEN FALSE
    ELSE IF ~voltage_validate_configuration(VoltageAnalyzer(is_connected(self), config))
    THEN FALSE
    ELSE ~(~config.analysis[1].options.run_base_case
           /\ ~config.analysis[1].options.run_contingency)

\* PowerFactoryInterface.validate_connection(), lines 356-381: study_case
\* tells whether the solver has an active study case.
validate_connection(self, study_case) ==
    IF ~is_connected(self) THEN FALSE ELSE study_case

\* connect_to_powerfactory()
connect_to_powerfactory(self, available, plain, ext, study_case) ==
    LET c == connect(self, None, available, plain, ext)
    IN IF ~c.ret THEN [self |-> c.self, ret |-> FALSE]
       ELSE [self |-> c.self, ret |-> validate_connection(c.self, study_case)]

\* A run that checks the configuration only after the base case.
run_full_analysis_late_check(self, config, available, plain, ext, study_case, solveOk) ==
    LET c == connect_to_powerfactory(self, available, plain, ext, study_case)
    IN IF ~c.ret
       THEN [self |-> c.self, outcome |-> "connect_failed", solves |-> 0]
       ELSE IF ~solveOk
       THEN [self |-> c.self, outcome |-> "load_flow_failed", solves |-> 1]
       ELSE IF ~validate_analysis_configuration(c.self, config)
       THEN [self |-> c.self, outcome |-> "validation_failed", solves |-> 1]
       ELSE [self |-> c.self, outcome |-> "base_case_done", solves |-> 1]

\* run_full_analysis() up to the end of the base case: the interface
\* afterwards, how far the run got (the three RuntimeErrors, or the base
\* case completed) and the load flows executed.
run_full_analysis(self, config, available, plain, ext, study_case, solveOk) ==
    IF ~validate_analysis_configuration(self, config)
    THEN [self |-> self, outcome |-> "validation_failed", solves |-> 0]
    ELSE LET c == connect_to_powerfactory(self, available, plain, ext, study_case)
         IN IF ~c.ret
            THEN [self |-> c.self, outcome |-> "connect_failed", solves |-> 0]
            ELSE IF ~solveOk
            THEN [self |-> c.self, outcome |-> "load_flow_failed", solves |-> 1]
            ELSE [self |-> c.self, outcome |-> "base_case_done", solves |-> 1]

InitFull ==
    /\ pf_available \in BOOLEAN
    /\ pf_app = None
    /\ pf_connected = FALSE
    /\ pf_user_id = None
    /\ pf_last = NoPfCall
    /\ pf_calls = 0
    /\ na_pc = "idle"
    /\ na_contingencies = <<>>
    /\ na_idx = 0
    /\ na_results = <<>>
    /\ na_contingency_results = <<>>
    /\ na_in = NoRun
    /\ na_runs = 0
    /\ rs_pc = "idle"
    /\ rs_scenarios = <<>>
    /\ rs_idx = 0
    /\ rs_results = <<>>
    /\ rs_in = NoLoop
    /\ rs_runs = 0
    /\ fa_config \in FullConfigs
    /\ fa_last = NoFullRun
    /\ fa_runs = 0
    \* the contingency engine at rest
    /\ operational_status = [e \in Elems |-> TRUE]
    /\ loaded_status = operational_status
    /\ outserv = [e \in Elems |-> 0]
    /\ contingency_states = [e \in Elems |-> Untracked]
    /\ active_contingency = None
    /\ pc = "idle"
    /\ contingency_elements = <<>>
    /\ idx = 0
    /\ total_contingencies = 0
    /\ successful_contingencies = 0
    /\ failed_contingencies = 0
    /\ analysis_results = <<>>
    /\ cb_log = <<>>
    /\ sweep_in = NoSweep
    /\ last_call = NoCall
    /\ calls = 0
    \* the scenario engine at rest
    /\ load_objects = <<"D1">>
    /\ live = InitialLive
    /\ original_values = <<>>
    /\ element_original = [s \in ScenarioIds |->
                              [i \in 1..Len(Scenarios[s].elements) |-> Nothing]]
    /\ active_scenario = None
    /\ scen_last = NoScenCall
    /\ scen_prev = NoPrevCall
    /\ scen_calls = 0
    \* the results aggregator at rest
    /\ base_case_results = <<>>
    /\ contingency_results = <<>>
    /\ processed_violations = Nothing
    /\ summary_statistics = Nothing
    /\ res_last = NoResCall
    /\ res_prev = NoPrevResCall
    /\ res_calls = 0
    \* the analyzers and the helpers at rest
    /\ analyzer = AnalyzerAtRest
    /\ ana_last = NoAnaCall
    /\ fun_last = NoFunCall

\* run_full_analysis(): validation, connection and base case, and the entry
\* of run_contingency_analysis (lines 295-312), whose loop NetContingency
\* and NetReturn carry on.
RunFullAnalysis(plain, ext, study_case, solveOk, max_contingencies) ==
    /\ na_pc = "idle"
    /\ fa_runs < MaxFullRuns
    /\ fa_runs' = fa_runs + 1
    /\ \E r \in {run_full_analysis(Interface, fa_config, pf_available, plain, ext,
                                    study_case, solveOk)} :
          /\ SetInterface(r.self)
          /\ fa_last' = [outcome |-> r.outcome,
                         was_connected |-> is_connected(Interface),
                         reachable |->
                             connect_to_powerfactory(Interface, pf_available, plain,
                                                     ext, study_case).ret,
                         solves |-> r.solves, outages |-> 0]
          /\ IF r.outcome = "base_case_done"
             THEN NetBegin(fa_config.analysis[1].options.run_contingency,
                           is_connected(r.self), max_contingencies)
             ELSE UNCHANGED netVars
    /\ UNCHANGED <<fa_config, pf_available, pf_last, pf_calls, contVars, scenVars,
                   resVars, anaVars, funVars, runVars>>

\* The caller connects or disconnects the interface between runs.
FullConnect(plain, ext) ==
    /\ na_pc = "idle"
    /\ Connect(None, plain, ext)

FullDisconnect ==
    /\ na_pc = "idle"
    /\ Disconnect

(***************************************************************************)
(* Specifications.                                                         *)
(***************************************************************************)
NextCont ==
    \/ PrepareContingencyList
    \/ \E e \in Elems, ok \in BOOLEAN : ApplyContingencyElement(e, ok)
    \/ \E n \in Elems, ok \in BOOLEAN : ApplyContingency(n, ok)
    \/ \E e \in Elems, ok \in BOOLEAN : RestoreContingency(e, ok)
    \/ \E ok \in BOOLEAN : RestoreSystem(ok)
    \/ \E okset \in SUBSET ThermalObjects : RestoreAllContingencies(okset)
    \/ ClearContingencyStates
    \/ \E m \in MaxContingenciesArgs, F \in SUBSET ThermalObjects : SweepStart(m, F)
    \/ \E solveOk \in BOOLEAN, cb \in CbOutcomes : SweepBaseCase(solveOk, cb)
    \/ \E solveOk \in BOOLEAN, cb \in CbOutcomes, restOk \in BOOLEAN :
          SweepCandidate(solveOk, cb, restOk)
    \/ \E okset \in SUBSET ThermalObjects : SweepFinal(okset)
    \/ SweepReturn

SpecCont == InitCont /\ [][NextCont]_vars

NextScen ==
    \/ \E s \in ScenarioIds, f \in Failures : ApplyScenario(s, f.rfail, f.wfail)
    \/ \E wfail \in WriteFailures : RestoreOriginalValues(wfail)
    \/ ClearStoredValues

SpecScen == InitScen /\ [][NextScen]_vars

NextRes ==
    \/ \E t \in AnalysisTypes, b \in Batches : AddBaseCaseResults(t, b)
    \/ \E n \in ContingencyNames, t \in AnalysisTypes, b \in Batches :
          AddContingencyResults(n, t, b)
    \/ \E a \in AnalysisInputs : AddAnalysisResults(a)
    \/ ClearAllResults
    \/ \E inc \in BOOLEAN : GetAllViolations(inc)
    \/ GetSummaryStatistics
    \/ \E top_n \in 1..2 : GetWorstContingencies(top_n)

SpecRes == InitRes /\ [][NextRes]_vars

NextAna ==
    \/ ThermalAnalyzeElement
    \/ VoltageAnalyzeElement
    \/ AnalyzeNetwork
    \/ ThermalValidateConfiguration
    \/ VoltageValidateConfiguration

SpecAna == InitAna /\ [][NextAna]_vars

NextFun ==
    \/ CalculateSeverity
    \/ CreateBessScenarios
    \/ FromAnalysisResult

SpecFun == InitFun /\ [][NextFun]_vars

NextPf ==
    \/ \E user_id \in UserIds, plain \in PlainOutcomes, ext \in ExtOutcomes :
          Connect(user_id, plain, ext)
    \/ Disconnect
    \/ \E plain \in PlainOutcomes, ext \in ExtOutcomes : App(plain, ext)
    \/ IsConnected

SpecPf == InitPf /\ [][NextPf]_vars

NextNet ==
    \/ \E run_contingency \in BOOLEAN, connected \in BOOLEAN,
          max_contingencies \in {1, 2, DefaultMaxContingencies} :
          NetStart(run_contingency, connected, max_contingencies)
    \/ \E applyOk \in BOOLEAN, solveOk \in BOOLEAN, analysis \in AnalysisOutcomes,
          outaged_reads \in BOOLEAN, restOk \in BOOLEAN :
          NetContingency(applyOk, solveOk, analysis, outaged_reads, restOk)
    \/ NetReturn

SpecNet == InitNet /\ [][NextNet]_vars

NextRun ==
    \/ \E scenarios \in ScenarioLists : RunStart(scenarios)
    \/ \E f \in Failures, solve \in SolveOutcomes, wfail \in WriteFailures :
          RunScenario(f, solve, wfail)
    \/ RunReturn

SpecRun == InitRun /\ [][NextRun]_vars

\* run_full_analysis on an interface the caller may have connected before.
NextFull ==
    \/ \E plain \in PlainOutcomes, ext \in ExtOutcomes, study_case \in BOOLEAN,
          solveOk \in BOOLEAN, max_contingencies \in {1, DefaultMaxContingencies} :
          RunFullAnalysis(plain, ext, study_case, solveOk, max_contingencies)
    \/ \E applyOk \in BOOLEAN, solveOk \in BOOLEAN, analysis \in AnalysisOutcomes,
          outaged_reads \in BOOLEAN, restOk \in BOOLEAN :
          NetContingency(applyOk, solveOk, analysis, outaged_reads, restOk)
    \/ NetReturn
    \/ \E plain \in PlainOutcomes, ext \in ExtOutcomes : FullConnect(plain, ext)
    \/ FullDisconnect

SpecFull == InitFull /\ [][NextFull]_vars


(***************************************************************************)
(* Properties of the contingency engine, stated for SpecCont.              *)
(***************************************************************************)

\* C1: when run_contingency_analysis has returned, every element its
\* prepare step put into the candidate pool has the operational_status it
\* had when the sweep started, whatever failed on the way.
C1_RestorationInvariant ==
    pc = "done" =>
        \A e \in sweep_in.pool : operational_status[e] = sweep_in.start_status[e]

\* A finished sweep over at least two tracked elements, one whose final
\* restore succeeded and one whose final restore failed.
C1_Witness ==
    /\ pc = "done"
    /\ Cardinality(sweep_in.pool) >= 2
    /\ \E e \in sweep_in.pool : contingency_states[e].contingency_status = "completed"
    /\ \E e \in sweep_in.pool : contingency_states[e].contingency_status = "failed"

\* C2: apply_contingency_element(B) while a different element A is the
\* active contingency returns False, leaves B's service state as it was and
\* leaves A the active contingency.
C2_MutualExclusion ==
    (/\ last_call.op = "apply_contingency_element"
     /\ last_call.pre_act # None
     /\ last_call.pre_act # last_call.el)
    => /\ ~last_call.ret
       /\ active_contingency = last_call.pre_act
       /\ (last_call.el \in OutOfService(World)) = (last_call.el \in last_call.pre_out)

\* apply(L2) was just rejected while L1, applied earlier and still out of
\* service, is the active contingency; L2 is in service.
C2_Witness ==
    /\ last_call.op = "apply_contingency_element"
    /\ last_call.el = "L2"
    /\ last_call.pre_act = "L1"
    /\ "L1" \in last_call.pre_out
    /\ ~last_call.ret
    /\ active_contingency = "L1"
    /\ operational_status["L2"] /\ outserv["L2"] = 0
    /\ ~operational_status["L1"] /\ outserv["L1"] = 1

\* C3 (as specified): in every reachable state at most one element that was
\* in service when the model was loaded is out of service.
C3_AtMostOneOutage ==
    Cardinality({e \in Elems : loaded_status[e] /\ outserv[e] = 1}) <= 1

\* C4 (as specified): a sweep whose solver and callback always succeed and in
\* which exactly the candidates in F fail to apply returns failed = |F| and
\* successful = n - |F|, with every candidate back at its original status.
C4_SweepCounts ==
    (pc = "done" /\ sweep_in.env_ok) =>
        LET cands == SeqToSet(contingency_elements)
            F == sweep_in.apply_fails \cap cands
        IN /\ failed_contingencies = Cardinality(F)
           /\ successful_contingencies = total_contingencies - Cardinality(F)
           /\ \A e \in cands : operational_status[e] = sweep_in.start_status[e]

(***************************************************************************)
(* Properties of the scenario engine, stated for SpecScen.                 *)
(***************************************************************************)
IsScenarioElementKey(k) == Head(k) # "load_"

\* C5: a snapshot for a scenario element name appears only in apply_scenario
\* and holds the live value the element had before that call; across any
\* ScenarioManager call other than clear_stored_values, the snapshot stored
\* for a scenario element name keeps its value.
C5_SnapshotStable ==
    [][/\ scen_last'.op # "clear_stored_values" =>
            \A i \in 1..Len(original_values) :
               IsScenarioElementKey(original_values[i].key) =>
                  /\ HasKey(original_values', original_values[i].key)
                  /\ Lookup(original_values', original_values[i].key)
                        = original_values[i].value
       /\ \A j \in 1..Len(original_values') :
             (/\ IsScenarioElementKey(original_values'[j].key)
              /\ ~HasKey(original_values, original_values'[j].key))
             => /\ scen_last'.op = "apply_scenario"
                /\ original_values'[j].value = live[original_values'[j].attr]]_vars

\* G2 was snapshotted at 80 by S1, which scaled it to 40; S2, naming G2
\* again, has been applied since and the snapshot is still 80.
C5_Witness ==
    /\ scen_prev.op = "apply_scenario" /\ scen_prev.arg = "S1" /\ scen_prev.ret
    /\ scen_last.op = "apply_scenario" /\ scen_last.arg = "S2"
    /\ scen_last.live_before[<<"G2", "pgini">>] = 40
    /\ HasKey(original_values, <<"G2">>)
    /\ Lookup(original_values, <<"G2">>) = 80

\* C6 (as specified): an apply_scenario call whose elements all resolve and
\* whose reads and writes all succeed returns True and leaves every
\* element at snapshot * factor (scenarios without uniform load scaling).
C6_ApplyScalesSnapshot ==
    LET sc == Scenarios[scen_last.arg]
    IN (/\ scen_last.op = "apply_scenario"
        /\ scen_last.env_ok
        /\ sc.load_scaling = 100
        /\ \A i \in 1..Len(sc.elements) :
              get_powerfactory_object(load_objects, sc.elements[i].name,
                                      sc.elements[i].element_type) # {})
       => /\ scen_last.ret
          /\ \A i \in 1..Len(sc.elements) :
                LET el == sc.elements[i]
                    o == CHOOSE x \in get_powerfactory_object(load_objects, el.name,
                                                              el.element_type) : TRUE
                IN /\ HasKey(original_values, el.name)
                   /\ live[<<o, value_attr(el.element_type)>>]
                         = Scale(Lookup(original_values, el.name), el.scaling_factor)

\* C7 (as specified): after restore_original_values has returned True, every
\* snapshotted attribute holds its snapshotted value.
C7_RestoreWritesSnapshots ==
    (scen_last.op = "restore_original_values" /\ scen_last.ret) =>
        \A i \in 1..Len(original_values) :
            live[original_values[i].attr] = original_values[i].value

\* C8 (as specified): of two restore_original_values calls in succession, in
\* which the solver refuses no write, both return True and the second
\* leaves the live values as the first left them.
C8_RestoreIdempotent ==
    (/\ scen_prev.op = "restore_original_values" /\ scen_prev.env_ok
     /\ scen_last.op = "restore_original_values" /\ scen_last.env_ok)
    => /\ scen_prev.ret
       /\ scen_last.ret
       /\ live = scen_last.live_before

(***************************************************************************)
(* Properties of the results aggregator, stated for SpecRes.               *)
(***************************************************************************)
IngestionOps == {"add_base_case_results", "add_contingency_results",
                 "add_analysis_results"}
ViewOps == {"get_all_violations", "get_summary_statistics"}

\* What the last view computes from the stored results with empty caches.
EmptyCaches == [Manager EXCEPT !.pv = Nothing, !.ss = Nothing]
FreshViolations == get_all_violations(EmptyCaches, res_last.inc)
FreshStatistics == get_summary_statistics(EmptyCaches)

\* The last view returned what it computes from the stored results.
ViewIsFresh ==
    /\ res_last.op = "get_all_violations" =>
          /\ res_last.raised = FreshViolations.raised
          /\ res_last.violations = FreshViolations.value
    /\ res_last.op = "get_summary_statistics" =>
          /\ res_last.raised = FreshStatistics.raised
          /\ res_last.stats = FreshStatistics.value

\* C9 (as specified): the view that follows any ingestion call or
\* clear_all_results never returns a cached value.
C9_NoCacheAfterIngestion ==
    (res_prev.op \in IngestionOps \cup {"clear_all_results"} /\ res_last.op \in ViewOps)
    => ~res_last.from_cache

\* C9 (amended): after an ingestion that stored at least one batch, and
\* after clear_all_results, both caches are empty, and the view that
\* follows returns no cached value but what it computes from the results
\* stored now.
C9_CacheInvalidated ==
    /\ (res_last.op \in IngestionOps \cup {"clear_all_results"} /\ res_last.stored)
       => (processed_violations = Nothing /\ summary_statistics = Nothing)
    /\ (/\ res_prev.op \in IngestionOps \cup {"clear_all_results"}
        /\ res_prev.stored
        /\ res_last.op \in ViewOps)
       => (~res_last.from_cache /\ ViewIsFresh)

\* A violation list was cached; add_base_case_results then stored a batch
\* holding a violating result; the get_all_violations that followed did not
\* answer from the cache: it ran into the new result.
C9_Witness ==
    /\ res_prev.op = "add_base_case_results"
    /\ res_prev.had_cache
    /\ res_last.op = "get_all_violations"
    /\ ~res_last.from_cache
    /\ res_last.raised

\* C10 (as specified): what a view returns is what it computes from the
\* stored results and its own arguments, whichever views were queried
\* before it.
C10_ViewsIndependentOfOrder == ViewIsFresh


(***************************************************************************)
(* Properties of the analyzers, stated for SpecAna.                        *)
(***************************************************************************)
\* The result of the last analyze_element call of the voltage analyzer.
VoltageResult == ana_last.result[1]
IsVoltageResult ==
    /\ ana_last.op = "analyze_element"
    /\ analyzer.kind = "voltage"
    /\ ana_last.result # Nothing
InRange(r) ==
    /\ ~float_lt(r.value, r.metadata.min_limit)
    /\ ~float_lt(r.metadata.max_limit, r.value)

\* C11 (as specified): for a limit pair with min < max, a voltage below min
\* is a violation of subtype undervoltage with limit min, a voltage above
\* max is a violation of subtype overvoltage with limit max, and every
\* voltage from min to max has status normal.
C11_VoltageStatus ==
    (IsVoltageResult
     /\ float_lt(VoltageResult.metadata.min_limit, VoltageResult.metadata.max_limit))
    => /\ float_lt(VoltageResult.value, VoltageResult.metadata.min_limit)
          => /\ VoltageResult.status = "violation"
             /\ VoltageResult.metadata.violation_type = "undervoltage"
             /\ VoltageResult.limit = VoltageResult.metadata.min_limit
       /\ float_lt(VoltageResult.metadata.max_limit, VoltageResult.value)
          => /\ VoltageResult.status = "violation"
             /\ VoltageResult.metadata.violation_type = "overvoltage"
             /\ VoltageResult.limit = VoltageResult.metadata.max_limit
       /\ InRange(VoltageResult) => VoltageResult.status = "normal"

\* The thermal_limits entry of an element type ('lines', 'transformers',
\* 'cables'), and the limit the configuration gives the type.
ConfiguredThermalLimits ==
    IF analyzer.config.analysis = Nothing THEN NoThermalLimits
    ELSE analyzer.config.analysis[1].thermal_limits
EntryOfType(element_type) ==
    CASE element_type = "ElmLne" -> ConfiguredThermalLimits.lines
      [] element_type \in {"ElmTr2", "ElmTr3"} -> ConfiguredThermalLimits.transformers
      [] element_type = "ElmCoup" -> ConfiguredThermalLimits.cables
LimitInEffect(element_type) ==
    IF EntryOfType(element_type) # Nothing THEN EntryOfType(element_type)[1]
    ELSE IF ConfiguredThermalLimits.default # Nothing
    THEN ConfiguredThermalLimits.default[1]
    ELSE 90

\* C12: the thermal analyzer grades a thermal element's loading against the
\* limit configured for its kind, or the configured default when the kind
\* has no entry: violation above the limit, warning above 90% of the limit
\* up to the limit, normal otherwise.
C12_ThermalStatus ==
    (/\ ana_last.op = "analyze_element"
     /\ analyzer.kind = "thermal"
     /\ ana_last.result # Nothing)
    => LET r == ana_last.result[1]
           element_type == ana_last.element[1].element_type
       IN /\ r.value = ana_last.reading.value
          /\ EntryOfType(element_type) # Nothing => r.limit = EntryOfType(element_type)[1]
          /\ (EntryOfType(element_type) = Nothing
              /\ ConfiguredThermalLimits.default # Nothing)
             => r.limit = ConfiguredThermalLimits.default[1]
          /\ r.status = (IF r.value > r.limit THEN "violation"
                         ELSE IF 10 * r.value > 9 * r.limit THEN "warning"
                         ELSE "normal")

\* A line, with no 'lines' entry and a default of 80, read at 75: a warning
\* against the default.
C12_Witness ==
    /\ ana_last.op = "analyze_element"
    /\ analyzer.kind = "thermal"
    /\ ana_last.result # Nothing
    /\ ana_last.element[1].element_type = "ElmLne"
    /\ ConfiguredThermalLimits.lines = Nothing
    /\ ConfiguredThermalLimits.default = Some(80)
    /\ ana_last.result[1].limit = 80
    /\ ana_last.result[1].status = "warning"

\* The distances of a voltage result's value from its two limits.
DistanceToMin(r) == float_abs(float_sub(r.value, r.metadata.min_limit))
DistanceToMax(r) == float_abs(float_sub(r.value, r.metadata.max_limit))

\* C13 (as specified): for a voltage inside [min, max] the recorded limit
\* is the nearer of min and max (1.00 with 0.97 / 1.04 records 0.97), and
\* min when the value is exactly equidistant from the two.
C13_TieRecordsMin ==
    (IsVoltageResult /\ InRange(VoltageResult))
    => /\ float_lt(DistanceToMin(VoltageResult), DistanceToMax(VoltageResult))
          => VoltageResult.limit = VoltageResult.metadata.min_limit
       /\ float_lt(DistanceToMax(VoltageResult), DistanceToMin(VoltageResult))
          => VoltageResult.limit = VoltageResult.metadata.max_limit
       /\ DistanceToMin(VoltageResult) = DistanceToMax(VoltageResult)
          => VoltageResult.limit = VoltageResult.metadata.min_limit

\* C13 (amended): for a voltage inside [min, max] the recorded limit is the
\* nearer of min and max (1.00 with 0.97 / 1.04 records 0.97), and max when
\* the value is exactly equidistant from the two.
C13_TieRecordsMax ==
    (IsVoltageResult /\ InRange(VoltageResult))
    => /\ float_lt(DistanceToMin(VoltageResult), DistanceToMax(VoltageResult))
          => VoltageResult.limit = VoltageResult.metadata.min_limit
       /\ float_lt(DistanceToMax(VoltageResult), DistanceToMin(VoltageResult))
          => VoltageResult.limit = VoltageResult.metadata.max_limit
       /\ DistanceToMin(VoltageResult) = DistanceToMax(VoltageResult)
          => VoltageResult.limit = VoltageResult.metadata.max_limit
       /\ (/\ VoltageResult.value = to_float(1000)
           /\ VoltageResult.metadata.min_limit = to_float(970)
           /\ VoltageResult.metadata.max_limit = to_float(1040))
          => VoltageResult.limit = to_float(970)

\* A voltage of 1.0 between the limits 0.95 and 1.05, whose doubles are at
\* the same distance from it: the recorded limit is 1.05.
C13_Witness ==
    /\ IsVoltageResult
    /\ VoltageResult.value = to_float(1000)
    /\ VoltageResult.metadata.min_limit = to_float(950)
    /\ VoltageResult.metadata.max_limit = to_float(1050)
    /\ DistanceToMin(VoltageResult) = DistanceToMax(VoltageResult)
    /\ VoltageResult.limit = to_float(1050)

(***************************************************************************)
(* Properties of the stateless helpers, stated for SpecFun.                *)
(***************************************************************************)
SeverityCall == fun_last.op = "calculate_severity"
SeverityOf(analysis_type) ==
    SeverityCall /\ fun_last.arg.analysis_type = analysis_type

\* C14: the severity of a thermal violation depends on the percentage
\* p = (value - limit) / limit * 100 alone, with strict thresholds: Critical
\* above 20, High above 10, Medium above 5, Low otherwise.  Against the limit
\* 100 the loadings 104, 108, 115, 125 grade Low, Medium, High, Critical and
\* 105 (p exactly 5) grades Low; 95 against 90 grades Medium.  (p > t is
\* stated as 100 * (value - limit) > t * limit.)
C14_ThermalSeverity ==
    SeverityOf("thermal")
    => LET value == fun_last.arg.value
           limit == fun_last.arg.limit
           over(t) == 100 * (value - limit) > t * limit
           severity == fun_last.ret
       IN /\ (severity = "Critical") <=> over(20)
          /\ (severity = "High") <=> (over(10) /\ ~over(20))
          /\ (severity = "Medium") <=> (over(5) /\ ~over(10))
          /\ (severity = "Low") <=> ~over(5)
          /\ (limit = 100 /\ value = 104) => severity = "Low"
          /\ (limit = 100 /\ value = 108) => severity = "Medium"
          /\ (limit = 100 /\ value = 115) => severity = "High"
          /\ (limit = 100 /\ value = 125) => severity = "Critical"
          /\ (limit = 100 /\ value = 105) => severity = "Low"
          /\ (limit = 90 /\ value = 95) => severity = "Medium"

\* A loading of 105 against the limit 100, exactly 5 percent over, was graded
\* Low.
C14_Witness ==
    /\ SeverityOf("thermal")
    /\ fun_last.arg.value = 105
    /\ fun_last.arg.limit = 100
    /\ fun_last.ret = "Low"

\* |limit - value| of the decimals the two doubles stand for, in millionths
DecimalDeviation(result) ==
    IF result.limit[1] < result.value[1]
    THEN result.value[1] - result.limit[1]
    ELSE result.limit[1] - result.value[1]

\* C15 (as specified): the severity of a voltage violation depends on
\* d = |limit - value| alone, with strict thresholds: Critical above 0.05,
\* High above 0.03, Medium above 0.02, Low otherwise; a measurement of 0.95
\* against the limit 0.97 (d = 0.02) grades Low.
C15_VoltageSeverity ==
    SeverityOf("voltage")
    => LET d == DecimalDeviation(fun_last.arg)
           severity == fun_last.ret
       IN /\ (severity = "Critical") <=> d > 50000
          /\ (severity = "High") <=> (d > 30000 /\ d <= 50000)
          /\ (severity = "Medium") <=> (d > 20000 /\ d <= 30000)
          /\ (severity = "Low") <=> d <= 20000
          /\ (fun_last.arg.value = to_float(950) /\ fun_last.arg.limit = to_float(970))
             => severity = "Low"

BessCall == fun_last.op = "create_bess_scenarios"
Tokens(name) == {name[i] : i \in 1..Len(name)}

\* C18: create_bess_scenarios(a, b) returns exactly 9 scenarios; each holds
\* a at factor 1.0 and then b at the factors 1.0, 0.8, 0.6, 0.4, 0.0, -0.4,
\* -0.6, -0.8, -1.0 in that order; the 9 names are pairwise distinct; a
\* negative factor is written with a "neg" token and no name holds a minus
\* sign.
C18_BessScenarios ==
    BessCall
    => LET a == fun_last.arg[1]
           b == fun_last.arg[2]
           scenarios == fun_last.ret
           factors == <<100, 80, 60, 40, 0, -40, -60, -80, -100>>
       IN /\ Len(scenarios) = 9
          /\ \A i \in 1..9 :
                /\ Len(scenarios[i].elements) = 2
                /\ scenarios[i].elements[1].name = a
                /\ scenarios[i].elements[1].scaling_factor = 100
                /\ scenarios[i].elements[2].name = b
                /\ scenarios[i].elements[2].scaling_factor = factors[i]
                /\ "-" \notin Tokens(scenarios[i].name)
                /\ (factors[i] < 0) <=> ("neg" \in Tokens(scenarios[i].name))
          /\ \A i, j \in 1..9 : i # j => scenarios[i].name # scenarios[j].name

\* The scenarios of two different units were created; the last one holds the
\* first at 1.0 and the second at -1.0 and is named with "neg".
C18_Witness ==
    /\ BessCall
    /\ fun_last.arg[1] # fun_last.arg[2]
    /\ fun_last.ret[9].elements[2].scaling_factor = -100
    /\ fun_last.ret[9].name = <<"BESS_A_100_BESS_B_", "neg", "100">>
    /\ fun_last.ret[1].name = <<"BESS_A_100_BESS_B_", "100">>

(***************************************************************************)
(* Properties of the aggregator's views, stated for SpecRes.               *)
(***************************************************************************)
\* Every result the manager holds, with the scenario it was ingested under:
\* the base case first, then the contingencies, in insertion order.
HeldResults ==
    LET RECURSIVE Flatten(_)
        Flatten(ss) == IF Len(ss) = 0 THEN <<>> ELSE Head(ss) \o Flatten(Tail(ss))
        ResultsOf(d, scenario) ==
            Flatten([i \in 1..Len(d) |->
                        [j \in 1..Len(d[i].value) |->
                            [scenario |-> scenario, result |-> d[i].value[j]]]])
    IN ResultsOf(base_case_results, "Base Case")
       \o Flatten([c \in 1..Len(contingency_results) |->
                      ResultsOf(contingency_results[c].value, contingency_results[c].key)])

HeldViolations ==
    LET violating(h) == h.result.status = "violation"
    IN SelectSeq(HeldResults, violating)

\* the number of violating results held under one scenario
ViolationsUnder(scenario) ==
    Cardinality({i \in 1..Len(HeldViolations) : HeldViolations[i].scenario = scenario})

\* C16 (as specified): get_worst_contingencies(top_n) returns the
\* contingencies that have at least one violation, each with its violation
\* count, ordered by descending total violation count with ties broken by
\* descending critical-violation count (so that counts (5,1), (5,3), (2,0)
\* come out as (5,3), (5,1), (2,0)), truncated to top_n.
C16_WorstContingencies ==
    res_last.op = "get_worst_contingencies"
    => LET worst == res_last.worst
           names == {worst[i].contingency_name : i \in 1..Len(worst)}
           with_violations ==
               {contingency_results[c].key : c \in 1..Len(contingency_results)}
               \ {name \in ContingencyNames : ViolationsUnder(name) = 0}
           at_most(n, m) == IF n < m THEN n ELSE m
       IN /\ ~res_last.raised
          /\ Len(worst) = at_most(res_last.top_n, Cardinality(with_violations))
          /\ Cardinality(names) = Len(worst)
          /\ \A i \in 1..Len(worst) :
                /\ worst[i].contingency_name \in with_violations
                /\ worst[i].total_violations = ViolationsUnder(worst[i].contingency_name)
          /\ \A i, j \in 1..Len(worst) :
                i < j => \/ worst[i].total_violations > worst[j].total_violations
                         \/ /\ worst[i].total_violations = worst[j].total_violations
                            /\ worst[i].critical_violations >= worst[j].critical_violations
          /\ \A name \in with_violations \ names :
                \A i \in 1..Len(worst) :
                   ViolationsUnder(name) <= worst[i].total_violations

\* C17 (as specified): get_all_violations, when it does not answer from its
\* cache, returns exactly one Violation for each ingested result whose
\* status is violation (base case only, or base case and contingencies) and
\* none for any other result; each carries the result's element name, value
\* and limit, and the scenario "Base Case" or the contingency's name.
C17_OneViolationPerResult ==
    (res_last.op = "get_all_violations" /\ ~res_last.from_cache)
    => LET base_case(h) == h.scenario = "Base Case"
           expected == IF res_last.inc THEN HeldViolations
                       ELSE SelectSeq(HeldViolations, base_case)
           violations == res_last.violations
       IN /\ ~res_last.raised
          /\ Len(violations) = Len(expected)
          /\ \A i \in 1..Len(violations) :
                /\ violations[i].element_name = expected[i].result.element
                /\ violations[i].violation_value = expected[i].result.value
                /\ violations[i].limit_value = expected[i].result.limit
                /\ violations[i].scenario = expected[i].scenario

(***************************************************************************)
(* Further properties of the analyzers, stated for SpecAna.                *)
(***************************************************************************)
NetworkCall == ana_last.op = "analyze_network"
\* the elements analyze_network applies the analyzer to
Applicable ==
    {NetworkElements[i] : i \in
        {j \in 1..Len(NetworkElements) :
            /\ NetworkElements[j].operational_status
            /\ IF analyzer.kind = "thermal"
               THEN NetworkElements[j].element_type \in thermal_types
               ELSE NetworkElements[j].element_type = "ElmTerm"}}
ResultsFor(name) ==
    {i \in 1..Len(ana_last.results) : ana_last.results[i].element = name}

\* C19: when the read of an element's loading or voltage returns no value or
\* a non-numeric value, analyze_network produces no AnalysisResult for that
\* element, of any status, and still produces a result for every other
\* applicable element; no result has status error.
C19_NoResultWithoutValue ==
    NetworkCall
    => /\ \A element \in Applicable :
             IF ana_last.reads[1][element.name].kind = "number"
             THEN Cardinality(ResultsFor(element.name)) = 1
             ELSE ResultsFor(element.name) = {}
       /\ \A i \in 1..Len(ana_last.results) :
             ana_last.results[i].status \in {"normal", "warning", "violation"}

\* A thermal analysis in which the read of L1 gave a non-numeric value and
\* that of T1 a loading: the only result is T1's.
C19_Witness ==
    /\ NetworkCall
    /\ analyzer.kind = "thermal"
    /\ ana_last.reads[1]["L1"] = NonNumeric
    /\ ana_last.reads[1]["T1"].kind = "number"
    /\ Len(ana_last.results) = 1
    /\ ana_last.results[1].element = "T1"

ValidateCall == ana_last.op = "validate_configuration"
ThermalInRange(limit) == limit > 0 /\ limit <= 200
\* a pair with both limits, 0 < min < max (on the configured decimals)
PairInRange(limits) ==
    /\ limits.min # Nothing
    /\ limits.max # Nothing
    /\ limits.min[1][1] > 0
    /\ limits.min[1][1] < limits.max[1][1]
ConfiguredPairs ==
    IF analyzer.kind # "voltage" THEN {}
    ELSE {analyzer.voltage_limits[i] : i \in 1..Len(analyzer.voltage_limits)}
\* the configured thermal_limits entries, 'default' included
ConfiguredThermalEntries ==
    IF analyzer.kind # "thermal" THEN {}
    ELSE {ConfiguredThermalLimits[k][1] :
            k \in {key \in DOMAIN ConfiguredThermalLimits :
                      ConfiguredThermalLimits[key] # Nothing}}

C21_ConnectDisconnect ==
    /\ (pf_last.op = "connect" /\ pf_last.ret = TRUE)
       => is_connected(Interface) /\ pf_app = Handle
    /\ pf_last.op = "disconnect"
       => ~is_connected(Interface) /\ pf_app = None
    /\ (pf_last.op = "app" /\ pf_last.prev = "disconnect")
       => pf_last.ret = None /\ ~is_connected(Interface)

(***************************************************************************)
(* Properties of NetworkAnalyzer.run_contingency_analysis, stated for      *)
(* SpecNet.                                                                *)
(***************************************************************************)
\* C24 (as specified): when the load flow fails or the analysis raises for a
\* contingency, the outaged element is put back in service before the next
\* contingency is applied, so that between two contingencies and when the
\* loop has ended every element that was in service at the start is in
\* service (as long as no restoring write failed); nothing is recorded for
\* a contingency whose load flow failed or whose analysis raised.
C24_RestoredAfterFailure ==
    na_in.ran
    => /\ na_in.restore_failed = {}
          => \A t \in ThermalObjects : na_in.start_out[t] = 0 => outserv[t] = 0
       /\ \A i \in 1..Len(na_results) :
             na_results[i] \notin na_in.solve_failed \cup na_in.raised


\* The candidate the loop of run_contingency_analysis is about to process,
\* when its outage write is one the solver accepts.
WritableCandidate ==
    /\ pc = "loop"
    /\ idx <= Len(contingency_elements)
    /\ contingency_elements[idx] \notin sweep_in.apply_fails

TrackedElements == {e \in Elems : contingency_states[e].tracked}

\* C22: in run_contingency_analysis, a candidate X whose outage write and
\* whose load flow succeed is applied, the callback is invoked exactly once
\* tagged with X's name while X and only X among the tracked elements is out
\* of service, and X is restored before the next candidate is applied.
C22_CallbackPerCandidate ==
    [][\A cb \in CbOutcomes, restOk \in BOOLEAN :
          (WritableCandidate /\ SweepCandidate(TRUE, cb, restOk))
          => /\ sweep_in'.applied
             /\ Cardinality({i \in 1..Len(cb_log') :
                                cb_log'[i].tag = contingency_elements[idx]}) = 1
             /\ cb_log' = Append(cb_log, cb_log'[Len(cb_log')])
             /\ cb_log'[Len(cb_log')].tag = contingency_elements[idx]
             /\ cb_log'[Len(cb_log')].out \cap TrackedElements
                   = {contingency_elements[idx]}
             /\ restOk => outserv'[contingency_elements[idx]] = 0]_vars

BaseCaseEntries == {i \in 1..Len(cb_log) : cb_log[i].tag = "base_case"}

\* The elements that were out of service when the running sweep started.
OutAtStart ==
    {e \in Elems : sweep_in.start_out[e] = 1 \/ ~sweep_in.start_status[e]}

\* What C25 says of the base case apart from the state of the network: one
\* load flow and, when it succeeds, one callback tagged "base_case" before any
\* candidate is applied; a failed load flow or a raising callback leaves no
\* base-case results and every candidate is still attempted.
BaseCaseOnceAndFirst ==
    /\ pc = "base"
       => /\ cb_log = <<>> /\ analysis_results = <<>>
          /\ idx = 1 /\ successful_contingencies + failed_contingencies = 0
          /\ ~sweep_in.applied /\ sweep_in.base_solve = "none"
    /\ pc \in {"loop", "done"}
       => /\ sweep_in.base_solve \in {"ok", "failed"}
          /\ BaseCaseEntries = IF sweep_in.base_solve = "ok" THEN {1} ELSE {}
          /\ \A i \in 1..Len(analysis_results) :
                analysis_results[i] = "base_case"
                => i = 1 /\ sweep_in.base_solve = "ok" /\ sweep_in.env_ok
          /\ \A e \in SeqToSet(contingency_elements) : sweep_in.start_status[e]
    /\ pc = "done"
       => /\ idx = Len(contingency_elements) + 1
          /\ successful_contingencies + failed_contingencies = total_contingencies

EligibleElements == SelectSeqBy(ElemSeq, sweep_in.pool)

\* The sweep works on the first k eligible elements and, once finished, has
\* attempted each of them.
AttemptsFirst(k) ==
    /\ contingency_elements = SubSeq(EligibleElements, 1, k)
    /\ total_contingencies = k
    /\ pc = "done"
       => /\ idx = k + 1
          /\ successful_contingencies + failed_contingencies = k

LifecycleSteps ==
    {<<"pending", "active">>, <<"pending", "failed">>,
     <<"active", "completed">>, <<"active", "failed">>}

\* C27: in any sequence of prepare, apply, restore and restore_all operations
\* (and sweeps), a ContingencyState's status changes only along pending ->
\* active, pending -> failed, active -> completed and active -> failed, until
\* the table is rebuilt (the element is tracked anew as pending, or the table
\* is cleared): nothing becomes completed without having been active, and
\* completed and failed are final.
C27_Lifecycle ==
    [][\A e \in Elems :
          \/ contingency_states'[e].contingency_status
                = contingency_states[e].contingency_status
          \/ contingency_states'[e].contingency_status \in {"pending", "none"}
          \/ <<contingency_states[e].contingency_status,
               contingency_states'[e].contingency_status>> \in LifecycleSteps]_vars

\* C28: an outage apply failure (and a restore failure) for a candidate of
\* run_contingency_analysis is recorded on the candidate's ContingencyState
\* with an error message and counted in failed_contingencies, and the sweep
\* still attempts all remaining candidates.
C28_FailuresRecorded ==
    /\ (pc = "loop" /\ idx > 1 /\ ~sweep_in.applied)
       => /\ contingency_states[contingency_elements[idx - 1]].contingency_status
                = "failed"
          /\ contingency_states[contingency_elements[idx - 1]].error_message # None
          /\ failed_contingencies >= 1
    /\ pc = "done"
       => /\ idx = Len(contingency_elements) + 1
          /\ \A e \in SeqToSet(contingency_elements) :
                contingency_states[e].contingency_status = "failed"
                => contingency_states[e].error_message # None

\* C29: when run_contingency_analysis returns, the manager's ContingencyState
\* table has been cleared.
C29_TableClearedOnReturn ==
    [][SweepReturn => \A e \in Elems : contingency_states'[e] = Untracked]_vars

\* The first two calls made on the manager were load-scaled apply_scenario
\* calls, with every read and write succeeding.
TwoLoadScaledApplies ==
    /\ scen_calls = 2
    /\ scen_prev.op = "apply_scenario" /\ scen_prev.env_ok
    /\ scen_last.op = "apply_scenario" /\ scen_last.env_ok
    /\ Scenarios[scen_prev.arg].load_scaling # 100
    /\ Scenarios[scen_last.arg].load_scaling # 100

\* C30: the P and Q snapshots used for uniform load scaling are captured only
\* before a load's first scaling: after two load-scaled apply_scenario calls
\* without clearing, each load's stored P and Q snapshots still equal its
\* values from before the first scenario, and P and Q stand at snapshot times
\* the factor of the second scenario (no compounding).
C30_LoadSnapshotsTakenOnce ==
    TwoLoadScaledApplies
    => \A o \in SeqToSet(load_objects) :
          /\ HasKey(original_values, load_key_p(o))
          /\ HasKey(original_values, load_key_q(o))
          /\ Lookup(original_values, load_key_p(o)) = InitialLive[<<o, "plini">>]
          /\ Lookup(original_values, load_key_q(o)) = InitialLive[<<o, "qlini">>]
          /\ live[<<o, "plini">>]
                = Scale(InitialLive[<<o, "plini">>],
                        Scenarios[scen_last.arg].load_scaling)
          /\ live[<<o, "qlini">>]
                = Scale(InitialLive[<<o, "qlini">>],
                        Scenarios[scen_last.arg].load_scaling)

(***************************************************************************)
(* Partial application of a scenario, stated for SpecScen.                 *)
(***************************************************************************)
\* The elements of scenario s that a step of apply_scenario could scale: the
\* name resolves, the element carries an original value and the solver
\* accepts the write.
ScalableElements(s, wfail) ==
    {i \in 1..Len(Scenarios[s].elements) :
        /\ get_powerfactory_object(load_objects, Scenarios[s].elements[i].name,
                                   Scenarios[s].elements[i].element_type) # {}
        /\ element_original'[s][i] # Nothing
        /\ \A o \in get_powerfactory_object(load_objects, Scenarios[s].elements[i].name,
                                             Scenarios[s].elements[i].element_type) :
              o \notin wfail}

\* After the step every scalable element stands at original value times
\* factor (loads apart when the scenario rescales all loads afterwards).
ScalableElementsScaled(s, wfail) ==
    \A i \in ScalableElements(s, wfail) :
       LET el == Scenarios[s].elements[i]
       IN (Scenarios[s].load_scaling = 100 \/ el.element_type # "ElmLod")
          => \A o \in get_powerfactory_object(load_objects, el.name, el.element_type) :
                live'[<<o, value_attr(el.element_type)>>]
                   = Scale(element_original'[s][i][1], el.scaling_factor)

PartialCount(s, wfail) ==
    <<Cardinality(ScalableElements(s, wfail)), Len(Scenarios[s].elements)>>

AtNextScenario == rs_pc = "loop" /\ rs_idx > 1 /\ rs_idx <= Len(rs_scenarios)

C32_RestoredBeforeNextScenario ==
    (AtNextScenario /\ rs_in.restore_ok) => live = rs_in.start_live

\* The part of C32 that the loop does keep: after an apply that returned
\* True, whatever the load flow did, the values of the scenario's elements
\* are back (uniform load scaling aside, whose snapshots are the matter of
\* C30).
NoLoadScalingSoFar ==
    \A i \in 1..Len(rs_scenarios) :
        i < rs_idx => Scenarios[rs_scenarios[i]].load_scaling = 100

C32_RestoredAfterAppliedScenario ==
    (AtNextScenario /\ rs_in.restore_ok /\ rs_in.apply_ret /\ NoLoadScalingSoFar)
        => live = rs_in.start_live

(***************************************************************************)
(* C33: Violation.from_analysis_result gives a thermal violation the same  *)
(* severity level as ResultsManager._calculate_severity gives the same     *)
(* result, for every value over its limit; 4, 8, 15 and 25 percent over    *)
(* the limit are Low, Medium, High and Critical on both paths.             *)
(***************************************************************************)
\* The aggregator's name for a SeverityLevel.
LevelName == [low |-> "Low", medium |-> "Medium", high |-> "High",
              critical |-> "Critical"]

ThermalViolationBuilt ==
    /\ fun_last.op = "from_analysis_result"
    /\ fun_last.arg.analysis_type = "thermal"
    /\ fun_last.arg.value > fun_last.arg.limit
    /\ fun_last.ret # Nothing

C33_SameSeverityOnBothPaths ==
    ThermalViolationBuilt
    => LET value == fun_last.arg.value
           limit == fun_last.arg.limit
           level == LevelName[fun_last.ret[1].severity]
       IN /\ level = calculate_severity(fun_last.arg)
          /\ (limit = 100 /\ value = 104) => level = "Low"
          /\ (limit = 100 /\ value = 108) => level = "Medium"
          /\ (limit = 100 /\ value = 115) => level = "High"
          /\ (limit = 100 /\ value = 125) => level = "Critical"

\* Where the two gradings do agree: below 5 percent, above 5 and up to 10,
\* from 15 and up to 20, and from 30 percent on.
C33_AgreeOutsideTheGaps ==
    ThermalViolationBuilt
    => LET over == (fun_last.arg.value - fun_last.arg.limit) * 100
           limit == fun_last.arg.limit
           agree == LevelName[fun_last.ret[1].severity]
                        = calculate_severity(fun_last.arg)
       IN agree <=> \/ over < 5 * limit
                    \/ over > 5 * limit /\ over <= 10 * limit
                    \/ over >= 15 * limit /\ over <= 20 * limit
                    \/ over >= 30 * limit

(***************************************************************************)
(* C34: when _validate_analysis_configuration fails, run_full_analysis     *)
(* raises "Analysis configuration validation failed" before any load flow  *)
(* is executed and before any element is taken out of service: the         *)
(* interface, the network and the contingency engine are as they were and  *)
(* no contingency loop is entered.                                         *)
(***************************************************************************)
C34_InvalidConfigurationNeverStarts ==
    [][(fa_runs' = fa_runs + 1
        /\ ~validate_analysis_configuration(Interface, fa_config))
       => /\ fa_last'.outcome = "validation_failed"
          /\ fa_last'.solves = 0
          /\ outserv' = outserv
          /\ operational_status' = operational_status
          /\ active_contingency' = active_contingency
          /\ na_pc' = "idle"
          /\ na_runs' = na_runs
          /\ <<pf_app, pf_connected>>' = <<pf_app, pf_connected>>]_vars

\* A connected interface and a line limit of 250 percent: the run was
\* refused for its limits, with no load flow and every element in service.
C34_Witness ==
    /\ fa_last.outcome = "validation_failed"
    /\ fa_last.was_connected
    /\ fa_last.reachable
    /\ fa_config # EmptyConfig
    /\ fa_config.analysis[1].thermal_limits.lines = Some(250)
    /\ fa_last.solves = 0
    /\ \A e \in Elems : outserv[e] = 0
    /\ na_pc = "idle"

(***************************************************************************)
(* C35: the outcome of configuration validation depends on the             *)
(* configuration alone: run_full_analysis started on an interface that is  *)
(* not yet connected, with every limit in range and a solver that can be   *)
(* reached, passes validation, connects and executes the base-case load    *)
(* flow.                                                                   *)
(***************************************************************************)
\* What validation says of the configuration on a connected interface.
ConfigurationInRange(config) ==
    validate_analysis_configuration(
        [app |-> Handle, connected |-> TRUE, user_id |-> None], config)

C35_ValidationIgnoresConnection ==
    (/\ fa_last.outcome # "none"
     /\ ~fa_last.was_connected
     /\ fa_last.reachable
     /\ ConfigurationInRange(fa_config))
    => /\ fa_last.outcome \in {"load_flow_failed", "base_case_done"}
       /\ fa_last.solves >= 1

\* What the code does instead: a run started on an interface that is not
\* connected never passes validation, whatever the configuration.
C35_NotConnectedNeverValidates ==
    (fa_last.outcome # "none" /\ ~fa_last.was_connected)
    => fa_last.outcome = "validation_failed" /\ fa_last.solves = 0

(***************************************************************************)
(* C36: in NetworkAnalyzer.run_contingency_analysis the results recorded   *)
(* for contingency X hold no thermal AnalysisResult whose element is X,    *)
(* the element taken out of service.                                       *)
(***************************************************************************)
C36_OutagedElementNotAnalysed ==
    \A entry \in na_in.thermal : entry[1] # entry[2]

\* What the loop does keep: a thermal result is only made for a thermal
\* element whose cached operational_status is true.
C36_AnalysedByCachedStatus ==
    \A entry \in na_in.thermal :
        is_thermal_element(entry[2]) /\ operational_status[entry[2]]

(***************************************************************************)
(* C37: once restore_contingency(X) has failed while X is the active       *)
(* contingency, X stays the active contingency and                         *)
(* apply_contingency_element on any other element returns False, until X   *)
(* is restored successfully or restore_all_contingencies or                *)
(* clear_contingency_states is called.                                     *)
(***************************************************************************)
\* X is active and its state records the failed restore.
RestoreFailedWhileActive(x) ==
    /\ active_contingency = x
    /\ contingency_states[x].tracked
    /\ contingency_states[x].contingency_status = "failed"
    /\ contingency_states[x].error_message = "Failed to restore service"

\* The step is one the claim lets release X: a successful restore of X by
\* restore_contingency or restore_system, restore_all_contingencies,
\* clear_contingency_states, or a step of run_contingency_analysis, which
\* restores its candidates and ends with restore_all_contingencies.
ReleasingStep(x) ==
    \/ pc # "idle" \/ pc' # "idle"
    \/ last_call'.op \in {"restore_all_contingencies", "clear_contingency_states"}
    \/ last_call'.op = "restore_contingency" /\ last_call'.el = x /\ last_call'.ret
    \/ last_call'.op = "restore_system" /\ last_call'.ret

KeepsActive(x) ==
    /\ active_contingency' = x
    /\ (last_call'.op = "apply_contingency_element" /\ last_call'.el # x)
           => ~last_call'.ret

C37_FailedRestoreKeepsActive ==
    [][\A x \in Elems :
          (RestoreFailedWhileActive(x) /\ ~ReleasingStep(x)) => KeepsActive(x)]_vars

\* What holds: the same, when the by-name apply_contingency is counted
\* among the steps that take the active contingency away from X.
C37_KeptUnlessAppliedByName ==
    [][\A x \in Elems :
          (/\ RestoreFailedWhileActive(x)
           /\ ~ReleasingStep(x)
           /\ ~(last_call'.op = "apply_contingency" /\ last_call'.ret))
          => KeepsActive(x)]_vars

(***************************************************************************)
(* C38: in the result run_contingency_analysis returns,                    *)
(* total_contingencies = successful_contingencies + failed_contingencies,  *)
(* whatever applies, load flows, callbacks and restores failed: every      *)
(* candidate gone through has been counted once, as a success or as a      *)
(* failure.                                                                *)
(***************************************************************************)
C38_TotalsAddUp ==
    /\ pc = "loop"
       => /\ successful_contingencies + failed_contingencies = idx - 1
          /\ total_contingencies = Len(contingency_elements)
    /\ pc = "done"
       => /\ total_contingencies
               = successful_contingencies + failed_contingencies
          /\ total_contingencies = Len(contingency_elements)

\* A sweep over at least two candidates has returned, with failures among
\* them.
C38_Witness ==
    /\ pc = "done"
    /\ total_contingencies >= 2
    /\ failed_contingencies >= 1
    /\ total_contingencies = successful_contingencies + failed_contingencies

(***************************************************************************)
(* C39: ingesting results a second time for the same key (base case and    *)
(* analysis type, or contingency name and analysis type) replaces the      *)
(* batch stored for it and leaves the batch of every other key as it was;  *)
(* the violations then returned are those of the batches now stored.       *)
(***************************************************************************)
BatchKeys ==
    {<<"Base Case", t>> : t \in AnalysisTypes}
    \cup {<<n, t>> : n \in ContingencyNames, t \in AnalysisTypes}

\* The batch stored under a key, if any.
StoredBatch(base, cont, k) ==
    IF k[1] = "Base Case"
    THEN (IF HasKey(base, k[2]) THEN Some(Lookup(base, k[2])) ELSE Nothing)
    ELSE IF HasKey(cont, k[1]) /\ HasKey(Lookup(cont, k[1]), k[2])
    THEN Some(Lookup(Lookup(cont, k[1]), k[2]))
    ELSE Nothing

Batch(k) == StoredBatch(base_case_results, contingency_results, k)

\* The step stored results under k, a key that held a batch before: k now
\* holds just these results, every other key holds what it held, and both
\* caches are dropped.
ReplacedOnly(k, results) ==
    /\ \A k2 \in BatchKeys :
          StoredBatch(base_case_results', contingency_results', k2)
              = IF k2 = k THEN Some(results) ELSE Batch(k2)
    /\ processed_violations' = Nothing
    /\ summary_statistics' = Nothing

SecondBatchReplaces ==
    /\ \A t \in AnalysisTypes, b \in Batches :
          (Batch(<<"Base Case", t>>) # Nothing /\ AddBaseCaseResults(t, b))
          => ReplacedOnly(<<"Base Case", t>>, b)
    /\ \A n \in ContingencyNames, t \in AnalysisTypes, b \in Batches :
          (Batch(<<n, t>>) # Nothing /\ AddContingencyResults(n, t, b))
          => ReplacedOnly(<<n, t>>, b)

\* The violating results among the batches now stored, base case only or
\* contingencies included.
ViolatingStored(include_contingencies) ==
    {<<k, i>> \in BatchKeys \X (1..1) :
        /\ Batch(k) # Nothing
        /\ i <= Len(Batch(k)[1])
        /\ Batch(k)[1][i].status = "violation"
        /\ (include_contingencies \/ k[1] = "Base Case")}

\* A view computed afresh returns one violation for each violating result
\* now stored.
ViewReflectsStore ==
    (/\ res_calls' = res_calls + 1
     /\ res_last'.op = "get_all_violations"
     /\ ~res_last'.from_cache)
    => /\ ~res_last'.raised
       /\ Len(res_last'.violations) = Cardinality(ViolatingStored(res_last'.inc))

C39_LaterBatchReplaces ==
    [][SecondBatchReplaces /\ ViewReflectsStore]_vars

\* What holds: the store and the caches are as C39 says; a view computed
\* afresh raises exactly when a violating result is among the batches it
\* goes through, and returns an empty list otherwise.
C39_StoreReplaced ==
    [][/\ SecondBatchReplaces
       /\ (/\ res_calls' = res_calls + 1
           /\ res_last'.op = "get_all_violations"
           /\ ~res_last'.from_cache)
          => /\ res_last'.raised <=> ViolatingStored(res_last'.inc) # {}
             /\ res_last'.violations = <<>>]_vars

====
